---- MODULE Spec2Model ----
(***************************************************************************)
(* Verification model of the onevox streaming audio pipeline.              *)
(*                                                                         *)
(*   SpecVad     - the VAD-mode consumer loop of start_dictation feeding   *)
(*                 VadProcessor::process / EnergyVad::detect with          *)
(*                 arbitrary chunk sequences (and VadProcessor::reset).    *)
(*   SpecS2      - the same loop fed the "single utterance" input          *)
(*                 (equal-energy speech chunks, then all-zero chunks).     *)
(*   SpecCapture - AudioCapture::start, the cpal input callback, the       *)
(*                 bounded tokio channel and the hold-to-talk consumer.    *)
(*   SpecModel   - ModelRuntime::load / transcribe / unload of every       *)
(*                 model variant.                                          *)
(*   SpecVadTask - one VAD-mode session: the consumer task awaiting        *)
(*                 transcribe_with_model and injecting.                    *)
(*   SpecDaemon  - the two DictationEngines run_event_loop creates (one    *)
(*                 driven by the hotkey, one by the control socket),       *)
(*                 their sessions, consumer tasks and model locks.         *)
(*   SpecStartup - Lifecycle::start of several daemon processes: the ping, *)
(*                 IpcServer::start and IpcServer::stop on one socket path.*)
(*   SpecLifecycle - run_event_loop: the dictation thread with its retry   *)
(*                 loop, the hotkey thread, the command loop, shutdown.    *)
(*   SpecIpc     - IpcServer::run and handle_client for concurrent         *)
(*                 connections, with the per-UID rate limiter.             *)
(*   SpecAcap    - one AudioCapture object: start, stop, Drop, callback    *)
(*                 and the receivers start returned.                       *)
(*   SpecBackpressure - the callback's dropped_chunks counter and its      *)
(*                 rate-limited warning, with a clock.                     *)
(*   SpecCli     - WhisperCppCli::transcribe polling its child process.    *)
(*   SpecTwin    - a VadProcessor after reset() beside a new one.          *)
(*   SpecIndicator - the recording indicator over start_dictation,        *)
(*                 stop_dictation and the consumer task.                  *)
(*   SpecHistory - one HistoryManager: add_entry, delete_entry, clear.    *)
(*                                                                         *)
(* RMS energies are kept in hundredths (0.02 is 2); a chunk is abstracted  *)
(* to its identity (capture order), its RMS energy, its duration, its      *)
(* sample count and its sample rate.                                       *)
(***************************************************************************)
EXTENDS Integers, Sequences, FiniteSets, Bags, TLC

VARIABLES
    \* ---- VAD-mode consumer (src/daemon/dictation.rs, src/vad/*.rs)
    vcfg,        \* EnergyVadConfig + VadProcessorConfig + chunk duration
    proc,        \* VadProcessor fields
    det,         \* EnergyVad fields
    nextId,      \* capture-order number of the next chunk fed
    consumed,    \* history: chunks consumed since the last emission or reset
    evicted,     \* history: pre-roll chunks evicted since the last emission or reset
    feed,        \* history: [rms, above] of the chunks fed since construction/reset
    segments,    \* history: every segment process() returned, with its context
    dispatched,  \* history: segments handed to transcribe_with_model
    injected,    \* history: segments whose transcript reached injector.inject
    resets,      \* history: number of reset() calls
    scenario,    \* input script: kind "free" (any input) or "s2" with its rms
    \* ---- capture (src/audio/capture.rs) and hold-to-talk consumer
    ccfg,              \* CaptureConfig of the session
    device_sample_rate,\* rate of the input device
    is_dictating,      \* DictationEngine.is_dictating
    engine_pc,         \* "idle", or "stopping" inside stop_dictation
    is_running,        \* AudioCapture.is_running
    stream,            \* AudioCapture.stream is Some (the callback exists)
    chunk_tx,          \* a Sender of the channel is alive
    channel_open,      \* the callback's channel_open flag
    resampler,         \* "Some" or "None": the callback's resampler
    chunk_size,        \* samples per accumulated chunk
    local_accumulator, \* number of samples in the callback's accumulator
    dropped_chunks,    \* the callback's counter
    chan,              \* chunks queued in the mpsc channel
    capacity,          \* capacity of the mpsc channel
    consumer,          \* "none", "loop", "transcribing", "done"
    collected,         \* collected_chunks of the hold-to-talk consumer
    pushes,            \* history: number of chunks the callback built
    pushLog,           \* history: try_send outcomes of the callback that just ran
    fullDropped,       \* history: ids of the chunks dropped on Full
    resampler_failed,  \* the resampler has reported an error
    \* ---- model runtime (src/models/*.rs)
    model,             \* [variant, is_loaded] of a ModelRuntime
    call,              \* history: the last transcribe call and its result
    \* ---- VAD-mode consumer task (src/daemon/dictation.rs 202-271)
    task,              \* the task's position, flag, in-flight transcription
    \* ---- daemon (src/daemon/lifecycle.rs, src/daemon/dictation.rs)
    dcfg,              \* the Config both engines are created from
    engine,            \* per engine: DictationEngine fields
    sessions,          \* per started session: capture, channel, consumer task
    last,              \* history: the last handler call and its result
    \* ---- daemon start-up (src/daemon/lifecycle.rs, src/ipc/server.rs)
    sockfile,          \* the control-socket path: the socket it names, or 0
    inst,              \* per daemon process: position, listener, outcome
    \* ---- daemon lifecycle (src/daemon/lifecycle.rs run_event_loop)
    life,              \* DaemonState, main task, dictation thread, engines
    \* ---- control-socket server (src/ipc/server.rs)
    ipc,               \* clock, rate-limiter table, DaemonState, connections
    \* ---- AudioCapture object (src/audio/capture.rs)
    acap,              \* is_running, stream, chunk_tx, channel, receiver
    \* ---- capture callback under backpressure (capture.rs 295-354)
    bp,                \* clock, queue, dropped_chunks, last_warning, log
    \* ---- whisper-cli child process (src/models/whisper_cpp_cli.rs)
    cli,               \* loaded, call position, child, elapsed time
    \* ---- VadProcessor::reset against a new processor (src/vad/processor.rs)
    twin,              \* the processor that was reset and the new one
    \* ---- recording indicator of one engine (src/daemon/dictation.rs)
    ind,               \* handler position, flag, indicator mode, consumer
    \* ---- transcription history (src/history.rs)
    history            \* config, entries, history file, clock, last call

capVars == <<ccfg, device_sample_rate, is_dictating, engine_pc, is_running,
             stream, chunk_tx, channel_open, resampler, chunk_size,
             local_accumulator, dropped_chunks, chan, capacity, consumer,
             collected, pushes, pushLog, fullDropped, resampler_failed>>

vadVars == <<vcfg, proc, det, nextId, consumed, evicted, feed, segments,
             dispatched, injected, resets, scenario>>

mdlVars == <<model, call>>

taskVars == <<task>>

dmnVars == <<dcfg, engine, sessions, last>>

\* daemon start-up, lifecycle, control socket, capture object, child process
sysVars == <<sockfile, inst, life, ipc, acap, bp, cli>>

\* the variables of the later sections, untouched by the sections above them
\* reset comparison
extVars == <<twin, ind, history>>

restVars == <<mdlVars, taskVars, dmnVars, sysVars, extVars>>

vars == <<vadVars, capVars, restVars>>

-----------------------------------------------------------------------------
(* Bounds of the model *)

MaxChunks == 7      \* chunks fed to one VAD consumer
MaxResets == 1      \* VadProcessor::reset calls
MaxPush == 13       \* chunks built by the capture callback
MaxTaskChunks == 5  \* chunks captured in the session of the VAD-mode task
MaxSessions == 2    \* sessions started in the daemon
MaxCaptured == 2    \* chunks captured in one session of the daemon
MaxShutdowns == 2   \* shutdown calls on one engine
MaxFairSessions == 1 \* sessions started where termination is checked
MaxInstances == 2   \* daemon processes started on one socket path
MaxStarts == 2      \* starts of one daemon process
MaxAttempts == 4    \* passes of the dictation thread's retry loop
MaxQueued == 2      \* dictation commands waiting in the command channel
MaxConns == 2       \* connections handled at the same time
MaxClock == 15      \* milliseconds of server time

-----------------------------------------------------------------------------
(* Helpers *)

Min(a, b) == IF a < b THEN a ELSE b

Max(a, b) == IF a > b THEN a ELSE b

Range(s) == {s[i] : i \in 1..Len(s)}

SeqToBag(s) == [x \in Range(s) |-> Cardinality({i \in 1..Len(s) : s[i] = x})]

-----------------------------------------------------------------------------
(* EnergyVad  (src/src/vad/energy.rs) *)

\* RMS energies (hundredths) a chunk may have: silence, faint noise, speech.
EnergyLevels == {0, 3, 14}

\* EnergyVadConfig::default with VadProcessorConfig::default, 100 ms chunks.
DefaultVadConfig ==
    [threshold |-> 2, min_speech_chunks |-> 2, min_silence_chunks |-> 3,
     adaptive |-> TRUE, adaptive_window_size |-> 30,
     pre_roll_ms |-> 300, post_roll_ms |-> 500, chunk_ms |-> 100]

\* Configurations the consumer is run with.
VadConfigs ==
    { DefaultVadConfig,
      [DefaultVadConfig EXCEPT !.adaptive = FALSE],
      [DefaultVadConfig EXCEPT !.adaptive = FALSE, !.min_speech_chunks = 1,
                               !.min_silence_chunks = 1, !.chunk_ms = 200],
      [DefaultVadConfig EXCEPT !.adaptive_window_size = 3,
                               !.min_speech_chunks = 1, !.min_silence_chunks = 2],
      [DefaultVadConfig EXCEPT !.adaptive = FALSE, !.min_silence_chunks = 1,
                               !.pre_roll_ms = 100] }

\* EnergyVad::new
NewEnergyVad ==
    [speech_count |-> 0, silence_count |-> 0, current_state |-> "Silence",
     energy_history |-> <<>>, background_energy |-> 0]

\* update_background_energy: push, evict the oldest over the window, median.
UpdateBackgroundEnergy(d, cfg, energy) ==
    IF ~cfg.adaptive THEN d
    ELSE LET pushed == Append(d.energy_history, energy)
             hist   == IF Len(pushed) > cfg.adaptive_window_size
                       THEN Tail(pushed) ELSE pushed
             sorted == SortSeq(hist, LAMBDA a, b : a < b)
         IN  [d EXCEPT !.energy_history = hist,
                       !.background_energy =
                           IF hist # <<>> THEN sorted[(Len(sorted) \div 2) + 1]
                                          ELSE d.background_energy]

\* get_threshold with the offset subtracted instead of added
GetThresholdBelowBackground(d, cfg) ==
    IF cfg.adaptive THEN d.background_energy - cfg.threshold ELSE 0 - cfg.threshold

\* get_threshold
GetThreshold(d, cfg) ==
    IF cfg.adaptive THEN d.background_energy + cfg.threshold ELSE cfg.threshold

\* the state machine leaving Speech one silent chunk late (> for >=)
DetectDecideLateSilence(d, cfg, has_speech) ==
    IF d.current_state = "Silence"
    THEN IF has_speech
         THEN LET sc == d.speech_count + 1
              IN  IF sc >= cfg.min_speech_chunks
                  THEN [det |-> [d EXCEPT !.speech_count = sc, !.silence_count = 0,
                                          !.current_state = "Speech"],
                        decision |-> "Speech"]
                  ELSE [det |-> [d EXCEPT !.speech_count = sc, !.silence_count = 0],
                        decision |-> "Silence"]
         ELSE [det |-> [d EXCEPT !.speech_count = 0], decision |-> "Silence"]
    ELSE IF has_speech
         THEN [det |-> [d EXCEPT !.silence_count = 0,
                                 !.speech_count = d.speech_count + 1],
               decision |-> "Speech"]
         ELSE LET sl == d.silence_count + 1
              IN  IF sl > cfg.min_silence_chunks
                  THEN [det |-> [d EXCEPT !.silence_count = sl, !.speech_count = 0,
                                          !.current_state = "Silence"],
                        decision |-> "Silence"]
                  ELSE [det |-> [d EXCEPT !.silence_count = sl, !.speech_count = 0],
                        decision |-> "Speech"]

\* the state machine keeping speech_count over a silent chunk in Silence
DetectDecideKeepsRun(d, cfg, has_speech) ==
    IF d.current_state = "Silence"
    THEN IF has_speech
         THEN LET sc == d.speech_count + 1
              IN  IF sc >= cfg.min_speech_chunks
                  THEN [det |-> [d EXCEPT !.speech_count = sc, !.silence_count = 0,
                                          !.current_state = "Speech"],
                        decision |-> "Speech"]
                  ELSE [det |-> [d EXCEPT !.speech_count = sc, !.silence_count = 0],
                        decision |-> "Silence"]
         ELSE [det |-> d, decision |-> "Silence"]
    ELSE IF has_speech
         THEN [det |-> [d EXCEPT !.silence_count = 0,
                                 !.speech_count = d.speech_count + 1],
               decision |-> "Speech"]
         ELSE LET sl == d.silence_count + 1
              IN  IF sl >= cfg.min_silence_chunks
                  THEN [det |-> [d EXCEPT !.silence_count = sl, !.speech_count = 0,
                                          !.current_state = "Silence"],
                        decision |-> "Silence"]
                  ELSE [det |-> [d EXCEPT !.silence_count = sl, !.speech_count = 0],
                        decision |-> "Speech"]

\* the state machine keeping silence_count over a speech chunk in Speech
DetectDecideKeepsSilence(d, cfg, has_speech) ==
    IF d.current_state = "Silence"
    THEN IF has_speech
         THEN LET sc == d.speech_count + 1
              IN  IF sc >= cfg.min_speech_chunks
                  THEN [det |-> [d EXCEPT !.speech_count = sc, !.silence_count = 0,
                                          !.current_state = "Speech"],
                        decision |-> "Speech"]
                  ELSE [det |-> [d EXCEPT !.speech_count = sc, !.silence_count = 0],
                        decision |-> "Silence"]
         ELSE [det |-> [d EXCEPT !.speech_count = 0], decision |-> "Silence"]
    ELSE IF has_speech
         THEN [det |-> [d EXCEPT !.speech_count = d.speech_count + 1],
               decision |-> "Speech"]
         ELSE LET sl == d.silence_count + 1
              IN  IF sl >= cfg.min_silence_chunks
                  THEN [det |-> [d EXCEPT !.silence_count = sl, !.speech_count = 0,
                                          !.current_state = "Silence"],
                        decision |-> "Silence"]
                  ELSE [det |-> [d EXCEPT !.silence_count = sl, !.speech_count = 0],
                        decision |-> "Speech"]

\* the hysteresis state machine of detect, given has_speech
DetectDecide(d, cfg, has_speech) ==
    IF d.current_state = "Silence"
    THEN IF has_speech
         THEN LET sc == d.speech_count + 1
              IN  IF sc >= cfg.min_speech_chunks
                  THEN [det |-> [d EXCEPT !.speech_count = sc, !.silence_count = 0,
                                          !.current_state = "Speech"],
                        decision |-> "Speech"]
                  ELSE [det |-> [d EXCEPT !.speech_count = sc, !.silence_count = 0],
                        decision |-> "Silence"]
         ELSE [det |-> [d EXCEPT !.speech_count = 0], decision |-> "Silence"]
    ELSE IF has_speech
         THEN [det |-> [d EXCEPT !.silence_count = 0,
                                 !.speech_count = d.speech_count + 1],
               decision |-> "Speech"]
         ELSE LET sl == d.silence_count + 1
              IN  IF sl >= cfg.min_silence_chunks
                  THEN [det |-> [d EXCEPT !.silence_count = sl, !.speech_count = 0,
                                          !.current_state = "Silence"],
                        decision |-> "Silence"]
                  ELSE [det |-> [d EXCEPT !.silence_count = sl, !.speech_count = 0],
                        decision |-> "Speech"]

\* EnergyVad::detect
Detect(d, cfg, chunk) ==
    LET energy     == chunk.rms
        d1         == UpdateBackgroundEnergy(d, cfg, energy)
        has_speech == energy > GetThreshold(d1, cfg)
        r          == DetectDecide(d1, cfg, has_speech)
    IN  [det |-> r.det, decision |-> r.decision, has_speech |-> has_speech]

-----------------------------------------------------------------------------
(* VadProcessor  (src/src/vad/processor.rs) *)

\* VadProcessor::new
NewVadProcessor ==
    [state |-> "Idle", pre_roll_buffer |-> <<>>, speech_buffer |-> <<>>,
     max_pre_roll_chunks |-> 10]

\* the lazy pre-roll capacity at the head of process
MaxPreRollChunks(p, cfg, chunk) ==
    IF p.max_pre_roll_chunks = 10 /\ chunk.dur > 0
    THEN (cfg.pre_roll_ms \div chunk.dur) + 1
    ELSE p.max_pre_roll_chunks

\* the Idle arm of process starting the segment without the pre-roll chunks
ProcessIdleNoPreRoll(p, chunk, decision) ==
    LET pushed == Append(p.pre_roll_buffer, chunk)
        over   == Max(0, Len(pushed) - p.max_pre_roll_chunks)
        kept   == SubSeq(pushed, over + 1, Len(pushed))
        gone   == {pushed[i] : i \in 1..over}
    IN  IF decision = "Speech"
        THEN [proc |-> [p EXCEPT !.state = "InSpeech",
                                 !.pre_roll_buffer = <<>>,
                                 !.speech_buffer = Append(p.speech_buffer, chunk)],
              segment |-> <<>>, evicted |-> gone]
        ELSE [proc |-> [p EXCEPT !.pre_roll_buffer = kept],
              segment |-> <<>>, evicted |-> gone]

\* the Idle arm of process
ProcessIdle(p, chunk, decision) ==
    LET pushed == Append(p.pre_roll_buffer, chunk)
        over   == Max(0, Len(pushed) - p.max_pre_roll_chunks)
        kept   == SubSeq(pushed, over + 1, Len(pushed))
        gone   == {pushed[i] : i \in 1..over}
    IN  IF decision = "Speech"
        THEN [proc |-> [p EXCEPT !.state = "InSpeech",
                                 !.pre_roll_buffer = <<>>,
                                 !.speech_buffer =
                                     Append(p.speech_buffer \o kept, chunk)],
              segment |-> <<>>, evicted |-> gone]
        ELSE [proc |-> [p EXCEPT !.pre_roll_buffer = kept],
              segment |-> <<>>, evicted |-> gone]

\* the InSpeech arm of process
ProcessInSpeech(p, chunk, decision) ==
    LET buf == Append(p.speech_buffer, chunk)
    IN  IF decision = "Silence"
        THEN [proc |-> [p EXCEPT !.state = "Idle", !.speech_buffer = <<>>,
                                 !.pre_roll_buffer = <<>>],
              segment |-> buf, evicted |-> {}]
        ELSE [proc |-> [p EXCEPT !.speech_buffer = buf],
              segment |-> <<>>, evicted |-> {}]

\* VadProcessor::process; segment = <<>> stands for Ok(None)
Process(p, d, cfg, chunk) ==
    LET p1 == [p EXCEPT !.max_pre_roll_chunks = MaxPreRollChunks(p, cfg, chunk)]
        dr == Detect(d, cfg, chunk)
        pr == IF p1.state = "Idle"
              THEN ProcessIdle(p1, chunk, dr.decision)
              ELSE ProcessInSpeech(p1, chunk, dr.decision)
    IN  [proc |-> pr.proc, det |-> dr.det, segment |-> pr.segment,
         evicted |-> pr.evicted, has_speech |-> dr.has_speech]

-----------------------------------------------------------------------------
(* The VAD-mode consumer loop  (src/src/daemon/dictation.rs 205-267) *)

\* one iteration that received `chunk`: process, and on a segment transcribe
\* and (when the transcription succeeded) inject
VadConsumeChunk(chunk, transcribe_ok) ==
    LET r == Process(proc, det, vcfg, chunk)
    IN  /\ proc' = r.proc
        /\ det' = r.det
        /\ nextId' = nextId + 1
        /\ feed' = Append(feed, [rms |-> chunk.rms, above |-> r.has_speech])
        /\ IF r.segment # <<>>
           THEN /\ segments' = Append(segments,
                       [chunks   |-> r.segment,
                        consumed |-> Append(consumed, chunk),
                        evicted  |-> evicted \cup r.evicted,
                        epoch    |-> resets,
                        feedLen  |-> Len(feed) + 1])
                /\ consumed' = <<>>
                /\ evicted' = {}
                /\ dispatched' = Append(dispatched,
                       [chunks |-> r.segment, epoch |-> resets])
                /\ injected' = IF transcribe_ok
                               THEN Append(injected,
                                      [chunks |-> r.segment, epoch |-> resets])
                               ELSE injected
           ELSE /\ consumed' = Append(consumed, chunk)
                /\ evicted' = evicted \cup r.evicted
                /\ UNCHANGED <<segments, dispatched, injected>>
        /\ UNCHANGED <<vcfg, resets, scenario, capVars, restVars>>

VadConsume ==
    /\ scenario.kind = "free"
    /\ nextId <= MaxChunks
    /\ \E e \in EnergyLevels, ok \in BOOLEAN :
          /\ (ok = FALSE => Process(proc, det, vcfg,
                 [id |-> nextId, rms |-> e, dur |-> vcfg.chunk_ms]).segment # <<>>)
          /\ VadConsumeChunk([id |-> nextId, rms |-> e, dur |-> vcfg.chunk_ms], ok)

\* VadProcessor::reset
VadReset ==
    /\ scenario.kind = "free"
    /\ resets < MaxResets
    /\ proc' = [proc EXCEPT !.state = "Idle", !.pre_roll_buffer = <<>>,
                            !.speech_buffer = <<>>]
    /\ det' = NewEnergyVad
    /\ consumed' = <<>>
    /\ evicted' = {}
    /\ feed' = <<>>
    /\ resets' = resets + 1
    /\ UNCHANGED <<vcfg, nextId, segments, dispatched, injected, scenario>>
    /\ UNCHANGED <<capVars, restVars>>

\* DictationEngine::new / AudioEngine::new: no session, no capture
CaptureIdle ==
    /\ ccfg = [sample_rate |-> 16000, chunk_duration_ms |-> 200,
               buffer_capacity_secs |-> 2]
    /\ device_sample_rate = 16000
    /\ is_dictating = FALSE
    /\ engine_pc = "idle"
    /\ is_running = FALSE
    /\ stream = FALSE
    /\ chunk_tx = FALSE
    /\ channel_open = FALSE
    /\ resampler = "None"
    /\ chunk_size = 0
    /\ local_accumulator = 0
    /\ dropped_chunks = 0
    /\ chan = <<>>
    /\ capacity = 0
    /\ consumer = "none"
    /\ collected = <<>>
    /\ pushes = 0
    /\ pushLog = <<>>
    /\ fullDropped = {}
    /\ resampler_failed = FALSE

\* no ModelRuntime under test
ModelIdle ==
    /\ model = [variant |-> "WhisperCppCli", is_loaded |-> FALSE]
    /\ call = [kind |-> "none"]

\* no VAD-mode consumer task spawned
TaskIdle == task = [pc |-> "none"]

\* no DictationEngine created yet
DaemonIdle ==
    /\ dcfg = [vad_enabled |-> FALSE]
    /\ engine = <<>>
    /\ sessions = <<>>
    /\ last = [op |-> "none"]

\* no processor under comparison
ExtIdle ==
    /\ twin = [pc |-> "none"]
    /\ ind = [pc |-> "none"]
    /\ history = [pc |-> "none"]

\* no daemon process started, no AudioCapture, no whisper-cli call
SysOnlyIdle ==
    /\ sockfile = 0
    /\ inst = <<>>
    /\ life = [pc |-> "none"]
    /\ ipc = [pc |-> "none"]
    /\ acap = [pc |-> "none"]
    /\ bp = [pc |-> "none"]
    /\ cli = [pc |-> "none"]

SysIdle == SysOnlyIdle /\ ExtIdle

RestIdle == ModelIdle /\ TaskIdle /\ DaemonIdle /\ SysIdle

\* VadProcessor::new with EnergyVad::new, nothing consumed yet
VadFresh(cfg, sc) ==
    /\ vcfg = cfg
    /\ proc = NewVadProcessor
    /\ det = NewEnergyVad
    /\ nextId = 1
    /\ consumed = <<>>
    /\ evicted = {}
    /\ feed = <<>>
    /\ segments = <<>>
    /\ dispatched = <<>>
    /\ injected = <<>>
    /\ resets = 0
    /\ scenario = sc

InitVadWith(cfg, sc) ==
    /\ VadFresh(cfg, sc)
    /\ CaptureIdle
    /\ RestIdle

InitVad == \E cfg \in VadConfigs : InitVadWith(cfg, [kind |-> "free", rms |-> 0])

NextVad == VadConsume \/ VadReset

SpecVad == InitVad /\ [][NextVad]_vars

-----------------------------------------------------------------------------
(* AudioCapture  (src/src/audio/capture.rs) *)

\* VALID_SAMPLE_RATES
ValidSampleRates == {8000, 16000, 22050, 44100, 48000}

\* CaptureConfig::validate
Validate(cfg) ==
    /\ cfg.sample_rate \in ValidSampleRates
    /\ cfg.chunk_duration_ms \in 10..1000
    /\ cfg.buffer_capacity_secs \in 1..60

\* chunk_size of AudioCapture::start (u32; the product of a validated
\* configuration is at most 48000 * 1000 and does not wrap)
ChunkSize(cfg) == (cfg.sample_rate * cfg.chunk_duration_ms) \div 1000

\* capacity of mpsc::channel in AudioCapture::start
ChannelCapacity(cfg) ==
    Max((cfg.sample_rate * cfg.buffer_capacity_secs) \div ChunkSize(cfg), 10)

\* configurations start_dictation builds from the active configuration
\* (buffer_capacity_secs is always 2); 32000 Hz does not pass validate
CaptureConfigs ==
    [sample_rate : {16000, 48000, 32000}, chunk_duration_ms : {200, 180},
     buffer_capacity_secs : {2}]

\* sample rates the input device may report
DeviceRates == {16000, 48000}

\* the receiver half is alive while the consumer task runs
RxAlive == consumer \in {"loop", "transcribing"}

\* Sender::try_send accepting one chunk less than the capacity
TrySendOffByOne(q, cap, rx_alive, chunk) ==
    IF ~rx_alive THEN [chan |-> q, result |-> "Closed"]
    ELSE IF Len(q) >= cap - 1 THEN [chan |-> q, result |-> "Full"]
    ELSE [chan |-> Append(q, chunk), result |-> "Ok"]

\* Sender::try_send on the bounded channel
TrySend(q, cap, rx_alive, chunk) ==
    IF ~rx_alive THEN [chan |-> q, result |-> "Closed"]
    ELSE IF Len(q) >= cap THEN [chan |-> q, result |-> "Full"]
    ELSE [chan |-> Append(q, chunk), result |-> "Ok"]

\* outcomes of AudioResampler::resample for one chunk
ResampleOutcomes == {"ok", "err"}

\* the chunk the callback builds from chunk_size accumulated samples
BuildChunk(id, outcome) ==
    IF resampler = "Some"
    THEN IF outcome = "err"
         THEN [id |-> id, len |-> chunk_size, rate |-> device_sample_rate]
         ELSE [id |-> id,
               len |-> (chunk_size * ccfg.sample_rate) \div device_sample_rate,
               rate |-> ccfg.sample_rate]
    ELSE [id |-> id, len |-> chunk_size, rate |-> ccfg.sample_rate]

\* the match on try_send treating Full like Closed
PushOneFullCloses(st, chunk) ==
    LET r == TrySend(st.chan, capacity, RxAlive, chunk)
        e == [chunk |-> chunk, result |-> r.result, occupied |-> Len(st.chan),
              receiver |-> RxAlive]
    IN  [chan           |-> r.chan,
         dropped_chunks |-> IF r.result = "Ok" THEN 0 ELSE st.dropped_chunks + 1,
         channel_open   |-> IF r.result = "Ok" THEN st.channel_open ELSE FALSE,
         fullDropped    |-> IF r.result = "Full"
                            THEN st.fullDropped \cup {chunk.id} ELSE st.fullDropped,
         log            |-> Append(st.log, e)]

\* the match on try_send in the callback
PushOne(st, chunk) ==
    LET r == TrySend(st.chan, capacity, RxAlive, chunk)
        e == [chunk |-> chunk, result |-> r.result, occupied |-> Len(st.chan),
              receiver |-> RxAlive]
    IN  [chan           |-> r.chan,
         dropped_chunks |-> CASE r.result = "Ok" -> 0
                              [] r.result = "Full" -> st.dropped_chunks + 1
                              [] OTHER -> st.dropped_chunks,
         channel_open   |-> IF r.result = "Closed" THEN FALSE ELSE st.channel_open,
         fullDropped    |-> IF r.result = "Full"
                            THEN st.fullDropped \cup {chunk.id} ELSE st.fullDropped,
         log            |-> Append(st.log, e)]

RECURSIVE PushAll(_, _)
PushAll(st, chunks) ==
    IF chunks = <<>> THEN st
    ELSE PushAll(PushOne(st, Head(chunks)), Tail(chunks))

\* sizes of the data slices the driver hands to the callback
CallbackSizes == {chunk_size \div 2, chunk_size, 2 * chunk_size}

\* a resampler that has reported an error keeps reporting it
FailsOnward(outcomes) ==
    /\ resampler_failed => \A i \in DOMAIN outcomes : outcomes[i] = "err"
    /\ \A i, j \in DOMAIN outcomes :
           (i < j /\ outcomes[i] = "err") => outcomes[j] = "err"

\* the input callback of build_input_stream, run on n samples
AudioCallback ==
    /\ stream
    /\ is_running /\ channel_open
    /\ \E n \in CallbackSizes :
         LET total == local_accumulator + n
             k     == total \div chunk_size
         IN  /\ pushes + k <= MaxPush
             /\ \E outcomes \in [1..k -> ResampleOutcomes] :
                  /\ resampler = "None" => \A i \in 1..k : outcomes[i] = "ok"
                  /\ resampler = "Some" => FailsOnward(outcomes)
                  /\ LET chunks == [i \in 1..k |->
                                        BuildChunk(pushes + i, outcomes[i])]
                         st == PushAll([chan |-> chan,
                                        dropped_chunks |-> dropped_chunks,
                                        channel_open |-> channel_open,
                                        fullDropped |-> fullDropped,
                                        log |-> <<>>], chunks)
                     IN  /\ chan' = st.chan
                         /\ dropped_chunks' = st.dropped_chunks
                         /\ channel_open' = st.channel_open
                         /\ fullDropped' = st.fullDropped
                         /\ pushLog' = st.log
                         /\ resampler_failed' =
                                (resampler_failed
                                    \/ \E i \in 1..k : outcomes[i] = "err")
                         /\ pushes' = pushes + k
                         /\ local_accumulator' = total % chunk_size
    /\ UNCHANGED <<ccfg, device_sample_rate, is_dictating, engine_pc, is_running,
                   stream, chunk_tx, resampler, chunk_size, capacity, consumer,
                   collected>>
    /\ UNCHANGED <<vadVars, restVars>>

-----------------------------------------------------------------------------
(* DictationEngine, hold-to-talk mode  (src/src/daemon/dictation.rs) *)

\* start_dictation of the engine's first session, VAD disabled
StartDictation ==
    /\ engine_pc = "idle"
    /\ consumer = "none"
    /\ ~is_dictating
    /\ is_dictating' = TRUE
    /\ \E cfg \in CaptureConfigs, dev \in DeviceRates, rs_ok \in BOOLEAN :
         IF ~Validate(cfg)
         THEN \* start_capture returns Err: `?` leaves start_dictation
              UNCHANGED <<ccfg, device_sample_rate, is_running, stream, chunk_tx,
                          channel_open, resampler, chunk_size, local_accumulator,
                          dropped_chunks, chan, capacity, consumer, collected>>
         ELSE /\ rs_ok \/ dev # cfg.sample_rate
              /\ ccfg' = cfg
              /\ device_sample_rate' = dev
              /\ chunk_size' = ChunkSize(cfg)
              /\ capacity' = ChannelCapacity(cfg)
              /\ chan' = <<>>
              /\ chunk_tx' = TRUE
              /\ channel_open' = TRUE
              /\ resampler' = IF dev # cfg.sample_rate /\ rs_ok
                              THEN "Some" ELSE "None"
              /\ local_accumulator' = 0
              /\ dropped_chunks' = 0
              /\ stream' = TRUE
              /\ is_running' = TRUE
              /\ consumer' = "loop"
              /\ collected' = <<>>
    /\ pushLog' = <<>>
    /\ UNCHANGED <<engine_pc, pushes, fullDropped, resampler_failed>>
    /\ UNCHANGED <<vadVars, restVars>>

\* stop_dictation up to the store of is_dictating
StopDictationFlag ==
    /\ engine_pc = "idle"
    /\ is_dictating
    /\ is_dictating' = FALSE
    /\ engine_pc' = "stopping"
    /\ UNCHANGED <<ccfg, device_sample_rate, is_running, stream, chunk_tx,
                   channel_open, resampler, chunk_size, local_accumulator,
                   dropped_chunks, chan, capacity, consumer, collected, pushes,
                   fullDropped, resampler_failed>>
    /\ pushLog' = <<>>
    /\ UNCHANGED <<vadVars, restVars>>

\* the rest of stop_dictation: AudioEngine::stop_capture, AudioCapture::stop
StopDictationCapture ==
    /\ engine_pc = "stopping"
    /\ engine_pc' = "idle"
    /\ is_running' = FALSE
    /\ stream' = FALSE
    /\ chunk_tx' = FALSE
    /\ UNCHANGED <<ccfg, device_sample_rate, is_dictating, channel_open,
                   resampler, chunk_size, local_accumulator, dropped_chunks, chan,
                   capacity, consumer, collected, pushes,
                   fullDropped, resampler_failed>>
    /\ pushLog' = <<>>
    /\ UNCHANGED <<vadVars, restVars>>

\* the collection loop receiving a chunk
ConsumerRecv ==
    /\ consumer = "loop"
    /\ chan # <<>>
    /\ collected' = Append(collected, Head(chan))
    /\ chan' = Tail(chan)
    /\ UNCHANGED <<ccfg, device_sample_rate, is_dictating, engine_pc, is_running,
                   stream, chunk_tx, channel_open, resampler, chunk_size,
                   local_accumulator, dropped_chunks, capacity, consumer, pushes,
                   fullDropped, resampler_failed>>
    /\ pushLog' = <<>>
    /\ UNCHANGED <<vadVars, restVars>>

\* the loop ending (recv gave None, or timed out with is_dictating false) and
\* the collected chunks going to transcribe_with_model as one segment
ConsumerBreak ==
    /\ consumer = "loop"
    /\ chan = <<>>
    /\ ~chunk_tx \/ ~is_dictating
    /\ IF collected # <<>>
       THEN /\ consumer' = "transcribing"
            /\ dispatched' = Append(dispatched, [chunks |-> collected, epoch |-> 0])
            /\ UNCHANGED chan
       ELSE /\ consumer' = "done"
            /\ UNCHANGED <<dispatched, chan>>
    /\ UNCHANGED <<ccfg, device_sample_rate, is_dictating, engine_pc, is_running,
                   stream, chunk_tx, channel_open, resampler, chunk_size,
                   local_accumulator, dropped_chunks, capacity, collected, pushes,
                   fullDropped, resampler_failed>>
    /\ pushLog' = <<>>
    /\ UNCHANGED <<vcfg, proc, det, nextId, consumed, evicted, feed, segments,
                   injected, resets, scenario, restVars>>

\* the transcription returning: inject on success, then the task ends and
\* drops the receiver with whatever is still queued
ConsumerFinish ==
    /\ consumer = "transcribing"
    /\ consumer' = "done"
    /\ chan' = <<>>
    /\ \E ok \in BOOLEAN :
         injected' = IF ok THEN Append(injected, [chunks |-> collected, epoch |-> 0])
                           ELSE injected
    /\ UNCHANGED <<ccfg, device_sample_rate, is_dictating, engine_pc, is_running,
                   stream, chunk_tx, channel_open, resampler, chunk_size,
                   local_accumulator, dropped_chunks, capacity, collected, pushes,
                   fullDropped, resampler_failed>>
    /\ pushLog' = <<>>
    /\ UNCHANGED <<vcfg, proc, det, nextId, consumed, evicted, feed, segments,
                   dispatched, resets, scenario, restVars>>

InitCapture ==
    /\ InitVadWith(DefaultVadConfig, [kind |-> "off", rms |-> 0])

NextCapture ==
    \/ StartDictation
    \/ AudioCallback
    \/ ConsumerRecv
    \/ ConsumerBreak
    \/ ConsumerFinish
    \/ StopDictationFlag
    \/ StopDictationCapture

SpecCapture == InitCapture /\ [][NextCapture]_vars

-----------------------------------------------------------------------------
(* The single-utterance input: equal-energy speech chunks, then zeros *)

\* RMS energies (hundredths) of the speech chunks; 14 is a sine of amplitude 0.2
S2SpeechLevels == {6, 8, 10, 14, 20, 35, 50, 70}

S2Script == [speech |-> 10, zeros |-> 4]

S2Rms(k) == IF k <= S2Script.speech THEN scenario.rms ELSE 0

VadConsumeS2 ==
    /\ scenario.kind = "s2"
    /\ nextId <= S2Script.speech + S2Script.zeros
    /\ \E ok \in BOOLEAN :
          VadConsumeChunk([id |-> nextId, rms |-> S2Rms(nextId),
                           dur |-> vcfg.chunk_ms], ok)

InitS2 == \E e \in S2SpeechLevels : InitVadWith(DefaultVadConfig, [kind |-> "s2", rms |-> e])

NextS2 == VadConsumeS2

SpecS2 == InitS2 /\ [][NextS2]_vars

-----------------------------------------------------------------------------
(* Properties of the VAD processor *)

Ids(s) == {s[i].id : i \in 1..Len(s)}

\* segments emitted since construction or the last reset
SegsNow == {i \in 1..Len(segments) : segments[i].epoch = resets}

\* pre_roll_ms / chunk_ms
PreRollChunks == vcfg.pre_roll_ms \div vcfg.chunk_ms

\* C1: every emitted segment holds exactly the chunks consumed since the
\* previous emission or reset, less the evicted pre-roll chunks, each once.
C1_SegmentIsConsumedOnce ==
    \A i \in 1..Len(segments) :
        LET s    == segments[i]
            kept == SelectSeq(s.consumed, LAMBDA c : c \notin s.evicted)
        IN  /\ SeqToBag(s.chunks) = SeqToBag(kept)
            /\ \A c \in Range(s.chunks) :
                   Cardinality({j \in 1..Len(s.chunks) : s.chunks[j] = c}) = 1

\* C2: the chunks of every emitted segment are consecutive in capture order,
\* no chunk is in two segments, and the buffers keep no chunk of an emitted
\* segment.
C2_SegmentsContiguousDisjoint ==
    /\ \A i \in 1..Len(segments) :
           \A j \in 1..(Len(segments[i].chunks) - 1) :
               segments[i].chunks[j + 1].id = segments[i].chunks[j].id + 1
    /\ \A i, k \in 1..Len(segments) :
           i # k => Ids(segments[i].chunks) \cap Ids(segments[k].chunks) = {}
    /\ \A i \in 1..Len(segments) :
           Ids(segments[i].chunks)
               \cap (Ids(proc.pre_roll_buffer) \cup Ids(proc.speech_buffer)) = {}

AllZeroFeed == \A i \in 1..Len(feed) : feed[i].rms = 0

\* C3: a processor fed only all-zero chunks stays Idle and emits nothing, so
\* nothing is transcribed and nothing is injected.
C3_SilenceYieldsNothing ==
    AllZeroFeed =>
        /\ proc.state = "Idle"
        /\ SegsNow = {}
        /\ \A i \in 1..Len(dispatched) : dispatched[i].epoch # resets
        /\ \A i \in 1..Len(injected) : injected[i].epoch # resets

C3_Witness ==
    /\ AllZeroFeed
    /\ Len(feed) >= 5
    /\ vcfg.adaptive
    /\ Len(det.energy_history) >= 5

\* number of leading above-threshold chunks of the feed
LeadAbove ==
    CHOOSE n \in 0..Len(feed) :
        /\ \A i \in 1..n : feed[i].above
        /\ n = Len(feed) \/ ~feed[n + 1].above

\* the feed is a run of above-threshold chunks followed by silent chunks only
SpeechThenSilence ==
    /\ LeadAbove >= 1
    /\ \A i \in (LeadAbove + 1)..Len(feed) : ~feed[i].above /\ feed[i].rms = 0

\* C4: from a fresh processor, a run of at least min_speech_chunks chunks
\* above the effective threshold followed by min_silence_chunks silent chunks
\* emits exactly one segment, on the last silent chunk; nothing is emitted
\* before, and the processor is in speech from the end of the run on.
C4_SpeechThenSilenceEmitsOne ==
    LET n == LeadAbove
        k == Len(feed) - LeadAbove
    IN  (SpeechThenSilence /\ k <= vcfg.min_silence_chunks) =>
            /\ k < vcfg.min_silence_chunks => SegsNow = {}
            /\ (n >= vcfg.min_speech_chunks /\ k < vcfg.min_silence_chunks)
                   => proc.state = "InSpeech"
            /\ (n >= vcfg.min_speech_chunks /\ k = vcfg.min_silence_chunks) =>
                   /\ Cardinality(SegsNow) = 1
                   /\ \A i \in SegsNow :
                          /\ segments[i].feedLen = Len(feed)
                          /\ segments[i].chunks # <<>>
                   /\ proc.state = "Idle"

C4_Witness ==
    /\ SpeechThenSilence
    /\ LeadAbove > vcfg.min_speech_chunks
    /\ vcfg.min_speech_chunks = 2
    /\ Len(feed) - LeadAbove = vcfg.min_silence_chunks
    /\ vcfg.min_silence_chunks = 3
    /\ SegsNow # {}

\* C5: after the 10 equal-energy speech chunks and the 4 all-zero chunks the
\* default configuration emitted exactly one segment, holding the speech
\* chunks and the post-roll chunks.
C5_SingleUtteranceOneSegment ==
    nextId > S2Script.speech + S2Script.zeros =>
        /\ Len(segments) = 1
        /\ \A id \in 1..(S2Script.speech + vcfg.min_silence_chunks) :
               id \in Ids(segments[1].chunks)

-----------------------------------------------------------------------------
(* Properties of the capture channel and of the chunks it carries *)

\* the chunks the consumer received, then the chunks still queued
Delivered == collected \o chan

\* C7: the chunks received are a subsequence of the chunks pushed, in push
\* order and without duplicates, and a push is dropped as Full only when the
\* channel holds exactly `capacity` chunks.
C7_ReceivedInOrderDropOnlyWhenFull ==
    /\ \A i \in 1..Len(Delivered) : Delivered[i].id \in 1..pushes
    /\ \A i \in 1..(Len(Delivered) - 1) : Delivered[i].id < Delivered[i + 1].id
    /\ \A i \in 1..Len(Delivered) : Delivered[i].id \notin fullDropped
    /\ \A i \in 1..Len(pushLog) :
           pushLog[i].result = "Full" =>
               /\ pushLog[i].occupied = capacity
               /\ pushLog[i].receiver

C7_Witness ==
    \E d \in fullDropped :
        /\ \E i \in 1..Len(collected) : collected[i].id > d
        /\ \E i \in 1..Len(collected) : collected[i].id < d

\* C8: a push never waits for the consumer: on a full channel it returns
\* Full at once and the chunk is dropped and counted; as soon as the channel
\* has room again the push succeeds; and while the receiver lives the
\* callback never stops producing.
C8_PushNeverBlocks ==
    /\ \A i \in 1..Len(pushLog) :
           LET e == pushLog[i]
           IN  /\ (e.receiver /\ e.occupied = capacity) =>
                      /\ e.result = "Full"
                      /\ e.chunk.id \in fullDropped
                      /\ e.chunk \notin Range(chan)
                      /\ dropped_chunks > 0
               /\ (e.receiver /\ e.occupied < capacity) =>
                      /\ e.result = "Ok"
                      /\ e.chunk \in Range(chan)
    /\ (stream /\ RxAlive) => channel_open
    /\ (stream /\ is_running /\ channel_open /\ pushes < MaxPush)
           => ENABLED AudioCallback

C8_Witness ==
    /\ fullDropped # {}
    /\ \E i \in 1..Len(pushLog) :
           /\ pushLog[i].result = "Ok"
           /\ \A d \in fullDropped : pushLog[i].chunk.id > d
    /\ dropped_chunks = 0

\* C9: every chunk the callback pushes has the target rate and
\* chunk_ms * rate / 1000 samples.
C9_PushedChunkFormat ==
    \A i \in 1..Len(pushLog) :
        /\ pushLog[i].chunk.rate = ccfg.sample_rate
        /\ pushLog[i].chunk.len =
               (ccfg.chunk_duration_ms * ccfg.sample_rate) \div 1000

\* SpeechSegment::sample_rate
SegmentSampleRate(chunks) == IF chunks # <<>> THEN chunks[1].rate ELSE 16000

\* C10: every segment handed to the model has sample rate 16 kHz, shared by
\* all its chunks.
C10_SegmentRate16k ==
    \A i \in 1..Len(dispatched) :
        /\ SegmentSampleRate(dispatched[i].chunks) = 16000
        /\ \A j \in 1..Len(dispatched[i].chunks) :
               dispatched[i].chunks[j].rate
                   = SegmentSampleRate(dispatched[i].chunks)

-----------------------------------------------------------------------------
(* ModelRuntime  (src/src/models/*.rs) *)

\* the implementations of ModelRuntime that can be loaded
ModelVariants ==
    {"WhisperCppCli", "MockModel", "OnnxRuntime", "WhisperCpp", "WhisperOnnx"}

\* lengths of the sample slice: empty, 100 ms and 1 s at 16 kHz
SampleLens == {0, 1600, 16000}

\* sample rates a caller may pass
SampleRates == {8000, 16000, 48000}

\* what the inference backend (whisper-cli process, whisper.cpp state,
\* ONNX sessions) does with the audio it is given
BackendOutcomes == {"ok", "err"}

Ok == [ok |-> TRUE, error |-> "none"]

Err(e) == [ok |-> FALSE, error |-> e]

\* the result of the inference proper
Infer(backend) == IF backend = "ok" THEN Ok ELSE Err("inference failed")

\* WhisperCppCli::transcribe: _sample_rate is unused, the samples are
\* written to a WAV file marked 16 kHz and whisper-cli is run on it
TranscribeWhisperCppCli(is_loaded, len, rate, backend) ==
    IF ~is_loaded THEN Err("Model not loaded") ELSE Infer(backend)

\* MockModel::transcribe: text made from len / rate
TranscribeMockModel(is_loaded, len, rate, backend) ==
    IF ~is_loaded THEN Err("Model not loaded") ELSE Ok

\* OnnxRuntime::transcribe
TranscribeOnnxRuntime(is_loaded, len, rate, backend) ==
    IF ~is_loaded THEN Err("Model not loaded")
    ELSE IF rate # 16000 THEN Err("Sample rate must be 16kHz")
    ELSE IF len = 0 THEN Err("No audio samples provided")
    ELSE Infer(backend)

\* WhisperCpp::transcribe
TranscribeWhisperCpp(is_loaded, len, rate, backend) ==
    IF ~is_loaded THEN Err("Model not loaded")
    ELSE IF rate # 16000 THEN Err("Sample rate must be 16kHz")
    ELSE Infer(backend)

\* WhisperOnnx::transcribe: _sample_rate is unused, the samples are padded
\* or truncated to 30 s
TranscribeWhisperOnnx(is_loaded, len, rate, backend) ==
    IF ~is_loaded THEN Err("Model not loaded") ELSE Infer(backend)

\* ModelRuntime::transcribe of the variant
Transcribe(variant, is_loaded, len, rate, backend) ==
    CASE variant = "WhisperCppCli" ->
             TranscribeWhisperCppCli(is_loaded, len, rate, backend)
      [] variant = "MockModel" ->
             TranscribeMockModel(is_loaded, len, rate, backend)
      [] variant = "OnnxRuntime" ->
             TranscribeOnnxRuntime(is_loaded, len, rate, backend)
      [] variant = "WhisperCpp" ->
             TranscribeWhisperCpp(is_loaded, len, rate, backend)
      [] variant = "WhisperOnnx" ->
             TranscribeWhisperOnnx(is_loaded, len, rate, backend)

\* ModelRuntime::load: on success the model is loaded, on failure (binary or
\* model file missing) the state is as before
ModelLoad ==
    /\ \E ok \in BOOLEAN :
          model' = IF ok THEN [model EXCEPT !.is_loaded = TRUE] ELSE model
    /\ call' = [kind |-> "load"]
    /\ UNCHANGED <<vadVars, capVars, taskVars, dmnVars, sysVars, extVars>>

\* ModelRuntime::unload
ModelUnload ==
    /\ model' = [model EXCEPT !.is_loaded = FALSE]
    /\ call' = [kind |-> "unload"]
    /\ UNCHANGED <<vadVars, capVars, taskVars, dmnVars, sysVars, extVars>>

\* a call of ModelRuntime::transcribe
ModelTranscribe ==
    /\ \E len \in SampleLens, rate \in SampleRates, backend \in BackendOutcomes :
          call' = [kind |-> "transcribe", is_loaded |-> model.is_loaded,
                   len |-> len, rate |-> rate,
                   result |-> Transcribe(model.variant, model.is_loaded,
                                         len, rate, backend)]
    /\ UNCHANGED model
    /\ UNCHANGED <<vadVars, capVars, taskVars, dmnVars, sysVars, extVars>>

InitModel ==
    /\ VadFresh(DefaultVadConfig, [kind |-> "off", rms |-> 0])
    /\ CaptureIdle
    /\ TaskIdle
    /\ DaemonIdle
    /\ SysIdle
    /\ \E v \in ModelVariants : model = [variant |-> v, is_loaded |-> FALSE]
    /\ call = [kind |-> "none"]

NextModel == ModelLoad \/ ModelUnload \/ ModelTranscribe

SpecModel == InitModel /\ [][NextModel]_vars

\* C11: transcribe returns an error when the model is not loaded, when
\* sample_rate is not 16000 (an error other than the not-loaded one) and
\* when the sample slice is empty; it returns a Transcription only for
\* non-empty 16 kHz samples on a loaded model.
C11_TranscribeRejectsBadInput ==
    call.kind = "transcribe" =>
        /\ ~call.is_loaded => call.result = Err("Model not loaded")
        /\ (call.is_loaded /\ call.rate # 16000) =>
               /\ ~call.result.ok
               /\ call.result.error # "Model not loaded"
        /\ (call.is_loaded /\ call.len = 0) => ~call.result.ok

-----------------------------------------------------------------------------
(* The VAD-mode consumer task of one session                               *)
(* (src/src/daemon/dictation.rs 202-271)                                   *)

\* VAD configurations of the session: a segment closes after one or two
\* speech chunks and one silent chunk
TaskVadConfigs ==
    { [DefaultVadConfig EXCEPT !.adaptive = FALSE, !.min_speech_chunks = 1,
                               !.min_silence_chunks = 1, !.chunk_ms = 200],
      [DefaultVadConfig EXCEPT !.adaptive = FALSE, !.min_silence_chunks = 1,
                               !.pre_roll_ms = 100] }

\* RMS energies (hundredths) of the captured chunks: silence or speech
TaskEnergyLevels == {0, 14}

\* capacity of the session's channel (16 kHz, 200 ms chunks, 2 s)
TaskCapacity ==
    ChannelCapacity([sample_rate |-> 16000, chunk_duration_ms |-> 200,
                     buffer_capacity_secs |-> 2])

\* transcribe_with_model: the result of the blocking worker (model error,
\* poisoned lock and join error all arrive as Err)
TranscribeResults == {"Ok", "Err"}

\* the Ok(Some(segment)) arm with the transcription spawned and not awaited
OnSegmentDetached(t, k) ==
    [t EXCEPT !.inflight = t.inflight \cup {k},
              !.events = Append(t.events, [ev |-> "dispatch", seg |-> k])]

\* the Ok(Some(segment)) arm: transcribe_with_model(..).await
OnSegment(t, k) ==
    [t EXCEPT !.pc = "transcribing",
              !.inflight = t.inflight \cup {k},
              !.events = Append(t.events, [ev |-> "dispatch", seg |-> k])]

\* the match on the transcription result leaving the loop on Err
OnTranscribedErrBreaks(t, k, result) ==
    [t EXCEPT !.pc = IF result = "Ok" THEN "loop" ELSE "done",
              !.inflight = t.inflight \ {k},
              !.events = Append(t.events,
                             [ev |-> IF result = "Ok" THEN "inject" ELSE "fail",
                              seg |-> k])]

\* the match on the transcription result: inject on Ok, log on Err, and on
\* with the loop
OnTranscribed(t, k, result) ==
    [t EXCEPT !.pc = IF t.pc = "transcribing" THEN "loop" ELSE t.pc,
              !.inflight = t.inflight \ {k},
              !.events = Append(t.events,
                             [ev |-> IF result = "Ok" THEN "inject" ELSE "fail",
                              seg |-> k])]

\* the capture callback pushing the next chunk
TaskPush ==
    /\ task.tx
    /\ nextId <= MaxTaskChunks
    /\ \E e \in TaskEnergyLevels :
          LET chunk == [id |-> nextId, rms |-> e, dur |-> vcfg.chunk_ms]
              r     == TrySend(task.chan, TaskCapacity, task.pc # "done", chunk)
          IN  task' = [task EXCEPT !.chan = r.chan]
    /\ nextId' = nextId + 1
    /\ UNCHANGED <<vcfg, proc, det, consumed, evicted, feed, segments,
                   dispatched, injected, resets, scenario>>
    /\ UNCHANGED <<capVars, mdlVars, dmnVars, sysVars, extVars>>

\* Ok(Some(chunk)): vad_processor.process, and on a segment the dispatch
TaskRecv ==
    /\ task.pc = "loop"
    /\ task.chan # <<>>
    /\ LET r == Process(proc, det, vcfg, Head(task.chan))
            t == [task EXCEPT !.chan = Tail(task.chan)]
        IN  /\ proc' = r.proc
            /\ det' = r.det
            /\ IF r.segment # <<>>
               THEN /\ segments' = Append(segments, [chunks |-> r.segment])
                    /\ task' = OnSegment(t, Len(segments) + 1)
               ELSE /\ task' = t
                    /\ UNCHANGED segments
    /\ UNCHANGED <<vcfg, nextId, consumed, evicted, feed, dispatched, injected,
                   resets, scenario>>
    /\ UNCHANGED <<capVars, mdlVars, dmnVars, sysVars, extVars>>

\* a transcription in flight returns
TaskTranscribed ==
    /\ \E k \in task.inflight, result \in TranscribeResults :
          task' = OnTranscribed(task, k, result)
    /\ UNCHANGED <<vadVars, capVars, mdlVars, dmnVars, sysVars, extVars>>

\* stop_dictation up to the store of is_dictating
TaskStopFlag ==
    /\ task.is_dictating
    /\ task' = [task EXCEPT !.is_dictating = FALSE]
    /\ UNCHANGED <<vadVars, capVars, mdlVars, dmnVars, sysVars, extVars>>

\* the rest of stop_dictation: the stream and the senders are dropped
TaskStopCapture ==
    /\ ~task.is_dictating
    /\ task.tx
    /\ task' = [task EXCEPT !.tx = FALSE]
    /\ UNCHANGED <<vadVars, capVars, mdlVars, dmnVars, sysVars, extVars>>

\* Ok(None), or the timeout with is_dictating false: break
TaskExit ==
    /\ task.pc = "loop"
    /\ task.chan = <<>>
    /\ ~task.tx \/ ~task.is_dictating
    /\ task' = [task EXCEPT !.pc = "done"]
    /\ UNCHANGED <<vadVars, capVars, mdlVars, dmnVars, sysVars, extVars>>

InitVadTask ==
    /\ \E cfg \in TaskVadConfigs : VadFresh(cfg, [kind |-> "off", rms |-> 0])
    /\ CaptureIdle
    /\ ModelIdle
    /\ DaemonIdle
    /\ SysIdle
    /\ task = [pc |-> "loop", is_dictating |-> TRUE, tx |-> TRUE, chan |-> <<>>,
               inflight |-> {}, events |-> <<>>]

NextVadTask ==
    \/ TaskPush
    \/ TaskRecv
    \/ TaskTranscribed
    \/ TaskStopFlag
    \/ TaskStopCapture
    \/ TaskExit

SpecVadTask == InitVadTask /\ [][NextVadTask]_vars

\* positions of the events of one kind
EventsOf(kind) == {i \in 1..Len(task.events) : task.events[i].ev = kind}

\* C12: inject calls happen in the order the segments were emitted (and the
\* segments start in non-decreasing capture order), and a segment is not
\* dispatched before every earlier segment has been injected or has failed.
C12_InjectInEmissionOrder ==
    /\ \A i, j \in EventsOf("inject") :
           i < j => task.events[i].seg < task.events[j].seg
    /\ \A k \in 1..(Len(segments) - 1) :
           segments[k].chunks[1].id <= segments[k + 1].chunks[1].id
    /\ \A i \in EventsOf("dispatch") :
           \A k \in 1..(task.events[i].seg - 1) :
               \E j \in 1..(i - 1) :
                   /\ task.events[j].ev \in {"inject", "fail"}
                   /\ task.events[j].seg = k

C12_Witness ==
    /\ Cardinality(EventsOf("inject")) >= 2
    /\ Cardinality(EventsOf("dispatch")) >= 2

\* C18: a failed transcription calls inject for nothing, does not end the
\* consumer task (it ends only on a closed channel or on is_dictating being
\* false), and every segment emitted afterwards is dispatched.
C18_FailureKeepsSession ==
    /\ \A i \in EventsOf("fail") :
           \A j \in EventsOf("inject") : task.events[j].seg # task.events[i].seg
    /\ task.pc = "done" => (~task.tx \/ ~task.is_dictating)
    /\ \A k \in 1..Len(segments) :
           \E i \in EventsOf("dispatch") : task.events[i].seg = k

C18_Witness ==
    \E i \in EventsOf("fail") :
        \E j \in EventsOf("dispatch") :
            /\ i < j
            /\ task.events[j].seg > task.events[i].seg
            /\ task.is_dictating

-----------------------------------------------------------------------------
(* The daemon: the engines of run_event_loop and their sessions            *)
(* (src/src/daemon/lifecycle.rs 107-150, src/src/daemon/dictation.rs)      *)

\* the engine serving the control socket and the engine serving the hotkey
Engines == {"ipc", "hotkey"}

\* the active configuration: vad.enabled and the audio settings
\* (32000 Hz does not pass CaptureConfig::validate)
DaemonConfigs ==
    [vad_enabled : BOOLEAN,
     capture : [sample_rate : {16000, 32000}, chunk_duration_ms : {200},
                buffer_capacity_secs : {2}]]

\* the VAD configuration of the sessions: a segment closes after one speech
\* chunk and one silent chunk
DaemonVadConfig ==
    [DefaultVadConfig EXCEPT !.adaptive = FALSE, !.min_speech_chunks = 1,
                             !.min_silence_chunks = 1, !.chunk_ms = 200]

\* the audio of every session: a chunk of speech, a chunk of silence, and
\* so on (RMS in hundredths), so that a VAD session closes a segment on
\* every second chunk
DaemonAudio(id) == IF id % 2 = 1 THEN 14 ELSE 0

\* DictationEngine::new: audio engine without capture, model loaded
NewEngine ==
    [is_dictating |-> FALSE, shutdown_signal |-> FALSE, pc |-> "idle",
     capture |-> 0, model_loaded |-> TRUE, model_lock |-> 0, shutdowns |-> 0]

\* AudioCapture::start and tokio::spawn of the consumer task
NewSession(e) ==
    [engine |-> e, tx |-> TRUE, chan |-> <<>>, pushed |-> 0, pc |-> "loop",
     collected |-> <<>>, proc |-> NewVadProcessor, det |-> NewEnergyVad,
     seg |-> <<>>, received |-> <<>>, dispatched |-> <<>>, injected |-> 0,
     failed |-> 0, stopped |-> FALSE]

\* AudioEngine::stop_capture leaving the senders of the channel alive
StopCaptureKeepsSender(ss, c) == ss

\* AudioEngine::stop_capture / AudioCapture::stop on capture c (0: None):
\* the stream with the callback's sender and chunk_tx are dropped
StopCapture(ss, c) ==
    IF c = 0 THEN ss ELSE [ss EXCEPT ![c].tx = FALSE]

\* the session whose capture is stopped is marked as stopped
MarkStopped(ss, c) ==
    IF c = 0 THEN ss ELSE [ss EXCEPT ![c].stopped = TRUE]

\* start_dictation never refusing
AlreadyDictatingNever(e) == FALSE

\* the check at the head of start_dictation
AlreadyDictating(e) == engine[e].is_dictating

\* stop_dictation never returning early
NotDictatingNever(e) == FALSE

\* the check at the head of stop_dictation
NotDictating(e) == ~engine[e].is_dictating

\* the consumer leaving its loop on every timeout
TimeoutBreaksAlways(e) == TRUE

\* the Err(_) arm of the consumer loops: break when is_dictating is false
TimeoutBreaks(e) == ~engine[e].is_dictating

\* start_dictation on engine e (hotkey Pressed or DictationCommand::Start)
DStartDictation(e) ==
    /\ engine[e].pc = "idle"
    /\ ~engine[e].shutdown_signal
    /\ IF AlreadyDictating(e)
       THEN /\ last' = [op |-> "start", e |-> e, result |-> "ignored"]
            /\ UNCHANGED <<engine, sessions>>
       ELSE \E device_ok \in BOOLEAN :
              LET ss == StopCapture(MarkStopped(sessions, engine[e].capture),
                                    engine[e].capture)
              IN  IF ~(Validate(dcfg.capture) /\ device_ok)
                  THEN \* start_capture returns Err, `?` leaves start_dictation
                       /\ engine' = [engine EXCEPT ![e].is_dictating = TRUE,
                                                   ![e].capture = 0]
                       /\ sessions' = ss
                       /\ last' = [op |-> "start", e |-> e, result |-> "err"]
                  ELSE /\ Len(sessions) < MaxSessions
                       /\ engine' = [engine EXCEPT ![e].is_dictating = TRUE,
                                                   ![e].capture = Len(ss) + 1]
                       /\ sessions' = Append(ss, NewSession(e))
                       /\ last' = [op |-> "start", e |-> e, result |-> "ok"]
    /\ UNCHANGED dcfg
    /\ UNCHANGED <<vadVars, capVars, mdlVars, taskVars, sysVars, extVars>>

\* stop_dictation on engine e (hotkey Released or DictationCommand::Stop) up
\* to the store of is_dictating
DStopFlag(e) ==
    /\ engine[e].pc = "idle"
    /\ IF NotDictating(e)
       THEN /\ last' = [op |-> "stop", e |-> e, result |-> "ignored"]
            /\ UNCHANGED <<engine, sessions>>
       ELSE /\ engine' = [engine EXCEPT ![e].is_dictating = FALSE,
                                        ![e].pc = "stopping"]
            /\ sessions' = MarkStopped(sessions, engine[e].capture)
            /\ last' = [op |-> "stop", e |-> e, result |-> "stopping"]
    /\ UNCHANGED dcfg
    /\ UNCHANGED <<vadVars, capVars, mdlVars, taskVars, sysVars, extVars>>

\* the rest of stop_dictation: audio_engine.stop_capture()
DStopCapture(e) ==
    /\ engine[e].pc = "stopping"
    /\ engine' = [engine EXCEPT ![e].pc = "idle", ![e].capture = 0]
    /\ sessions' = StopCapture(sessions, engine[e].capture)
    /\ last' = [op |-> "stop", e |-> e, result |-> "ok"]
    /\ UNCHANGED dcfg
    /\ UNCHANGED <<vadVars, capVars, mdlVars, taskVars, sysVars, extVars>>

\* shutdown (also run by Drop) up to the lock of the model
DShutdown(e) ==
    /\ engine[e].pc = "idle"
    /\ engine[e].shutdowns < MaxShutdowns
    /\ IF engine[e].is_dictating
       THEN /\ sessions' = StopCapture(MarkStopped(sessions, engine[e].capture),
                                       engine[e].capture)
            /\ engine' = [engine EXCEPT ![e].shutdown_signal = TRUE,
                                        ![e].is_dictating = FALSE,
                                        ![e].capture = 0,
                                        ![e].pc = "unloading"]
       ELSE /\ engine' = [engine EXCEPT ![e].shutdown_signal = TRUE,
                                        ![e].pc = "unloading"]
            /\ UNCHANGED sessions
    /\ last' = [op |-> "shutdown", e |-> e, result |-> "locking"]
    /\ UNCHANGED dcfg
    /\ UNCHANGED <<vadVars, capVars, mdlVars, taskVars, sysVars, extVars>>

\* the rest of shutdown: model.lock() succeeds once no transcription holds
\* the lock, then model.unload()
DUnload(e) ==
    /\ engine[e].pc = "unloading"
    /\ engine[e].model_lock = 0
    /\ engine' = [engine EXCEPT ![e].model_loaded = FALSE, ![e].pc = "idle",
                                ![e].shutdowns = engine[e].shutdowns + 1]
    /\ last' = [op |-> "shutdown", e |-> e, result |-> "ok"]
    /\ UNCHANGED <<dcfg, sessions>>
    /\ UNCHANGED <<vadVars, capVars, mdlVars, taskVars, sysVars, extVars>>

\* the capture callback of session s pushing its next chunk
DCallback(s) ==
    /\ s \in 1..Len(sessions)
    /\ sessions[s].tx
    /\ sessions[s].pc # "done"
    /\ sessions[s].pushed < MaxCaptured
    /\ LET chunk == [id |-> sessions[s].pushed + 1,
                     rms |-> DaemonAudio(sessions[s].pushed + 1),
                     dur |-> dcfg.capture.chunk_duration_ms]
           r == TrySend(sessions[s].chan, ChannelCapacity(dcfg.capture),
                        TRUE, chunk)
       IN  sessions' = [sessions EXCEPT ![s].chan = r.chan,
                                        ![s].pushed = @ + 1]
    /\ last' = [op |-> "none"]
    /\ UNCHANGED <<dcfg, engine>>
    /\ UNCHANGED <<vadVars, capVars, mdlVars, taskVars, sysVars, extVars>>

\* Ok(Some(chunk)) in the consumer task of session s
DRecv(s) ==
    /\ s \in 1..Len(sessions)
    /\ sessions[s].pc = "loop"
    /\ sessions[s].chan # <<>>
    /\ LET chunk == Head(sessions[s].chan)
           got   == [sessions[s] EXCEPT !.chan = Tail(@),
                                        !.received = Append(@, chunk.id)]
       IN  IF dcfg.vad_enabled
           THEN LET r == Process(got.proc, got.det, DaemonVadConfig, chunk)
                    t == [got EXCEPT !.proc = r.proc, !.det = r.det]
                IN  sessions' = [sessions EXCEPT ![s] =
                        IF r.segment # <<>>
                        THEN [t EXCEPT !.pc = "waiting",
                                       !.seg = [i \in 1..Len(r.segment) |->
                                                    r.segment[i].id],
                                       !.dispatched = Append(@,
                                           [i \in 1..Len(r.segment) |->
                                                r.segment[i].id])]
                        ELSE t]
           ELSE sessions' = [sessions EXCEPT ![s] =
                    [got EXCEPT !.collected = Append(@, chunk.id)]]
    /\ last' = [op |-> "none"]
    /\ UNCHANGED <<dcfg, engine>>
    /\ UNCHANGED <<vadVars, capVars, mdlVars, taskVars, sysVars, extVars>>

\* Ok(None), or the timeout with is_dictating false: the loop of session s
\* ends; the hold-to-talk task dispatches what it collected
DBreak(s) ==
    /\ s \in 1..Len(sessions)
    /\ sessions[s].pc = "loop"
    /\ sessions[s].chan = <<>>
    /\ ~sessions[s].tx \/ TimeoutBreaks(sessions[s].engine)
    /\ LET cur == sessions[s]
       IN  sessions' = [sessions EXCEPT ![s] =
               IF ~dcfg.vad_enabled /\ cur.collected # <<>>
               THEN [cur EXCEPT !.pc = "waiting", !.seg = cur.collected,
                                !.dispatched = Append(@, cur.collected)]
               ELSE [cur EXCEPT !.pc = "done"]]
    /\ last' = [op |-> "none"]
    /\ UNCHANGED <<dcfg, engine>>
    /\ UNCHANGED <<vadVars, capVars, mdlVars, taskVars, sysVars, extVars>>

\* transcribe_with_model: the blocking worker of session s takes the lock of
\* its engine's model
DLock(s) ==
    /\ s \in 1..Len(sessions)
    /\ sessions[s].pc = "waiting"
    /\ engine[sessions[s].engine].model_lock = 0
    /\ engine' = [engine EXCEPT ![sessions[s].engine].model_lock = s]
    /\ sessions' = [sessions EXCEPT ![s].pc = "running"]
    /\ last' = [op |-> "none"]
    /\ UNCHANGED dcfg
    /\ UNCHANGED <<vadVars, capVars, mdlVars, taskVars, sysVars, extVars>>

\* transcribe_segment returns and the lock is released; on Ok the text is
\* injected; the VAD task goes back to its loop, the hold-to-talk task ends
DTranscribed(s) ==
    /\ s \in 1..Len(sessions)
    /\ sessions[s].pc = "running"
    /\ \E backend \in BackendOutcomes :
          LET e == sessions[s].engine
              r == Transcribe("WhisperCppCli", engine[e].model_loaded,
                              Len(sessions[s].seg) * ChunkSize(dcfg.capture),
                              dcfg.capture.sample_rate, backend)
          IN  /\ engine' = [engine EXCEPT ![e].model_lock = 0]
              /\ sessions' = [sessions EXCEPT ![s] =
                     [sessions[s] EXCEPT
                          !.pc = IF dcfg.vad_enabled THEN "loop" ELSE "done",
                          !.seg = <<>>,
                          !.injected = IF r.ok THEN @ + 1 ELSE @,
                          !.failed = IF r.ok THEN @ ELSE @ + 1]]
    /\ last' = [op |-> "none"]
    /\ UNCHANGED dcfg
    /\ UNCHANGED <<vadVars, capVars, mdlVars, taskVars, sysVars, extVars>>

\* the parts of the model the daemon does not use
DaemonRest ==
    /\ VadFresh(DefaultVadConfig, [kind |-> "off", rms |-> 0])
    /\ CaptureIdle
    /\ ModelIdle
    /\ TaskIdle
    /\ SysIdle

\* run_event_loop has created both engines
InitDaemon ==
    /\ DaemonRest
    /\ dcfg \in DaemonConfigs
    /\ engine = [e \in Engines |-> NewEngine]
    /\ sessions = <<>>
    /\ last = [op |-> "none"]

\* the callbacks and the consumer tasks of the sessions
NextSessions ==
    \/ \E s \in 1..MaxSessions : DCallback(s)
    \/ \E s \in 1..MaxSessions : DRecv(s)
    \/ \E s \in 1..MaxSessions : DBreak(s)
    \/ \E s \in 1..MaxSessions : DLock(s)
    \/ \E s \in 1..MaxSessions : DTranscribed(s)

\* hotkey events and control-socket commands reaching their engines
NextDaemon ==
    \/ \E e \in Engines : DStartDictation(e)
    \/ \E e \in Engines : DStopFlag(e)
    \/ \E e \in Engines : DStopCapture(e)
    \/ NextSessions

SpecDaemon == InitDaemon /\ [][NextDaemon]_vars

\* the daemon without control-socket traffic: the hotkey engine from its
\* first event to shutdown and drop
HotkeyEngine == {"hotkey"}

NextEngine ==
    \/ \E e \in HotkeyEngine : DStartDictation(e)
    \/ \E e \in HotkeyEngine : DStopFlag(e)
    \/ \E e \in HotkeyEngine : DStopCapture(e)
    \/ \E e \in HotkeyEngine : DShutdown(e)
    \/ \E e \in HotkeyEngine : DUnload(e)
    \/ NextSessions

SpecEngine == InitDaemon /\ [][NextEngine]_vars

\* a step of a consumer task or of its blocking worker
ConsumerStep ==
    \E s \in 1..MaxSessions :
        DRecv(s) \/ DBreak(s) \/ DLock(s) \/ DTranscribed(s)

\* a handler that has begun running to its end
HandlerStep == \E e \in HotkeyEngine : DStopCapture(e) \/ DUnload(e)

\* the engine's thread finishes the handler it runs, and the tokio runtime
\* keeps running the tasks that can run
FairEngine == WF_vars(HandlerStep) /\ WF_vars(ConsumerStep)

\* the hotkey engine with at most MaxFairSessions sessions started
NextEngineFair ==
    \/ \E e \in HotkeyEngine :
          DStartDictation(e) /\ Len(sessions') <= MaxFairSessions
    \/ \E e \in HotkeyEngine : DStopFlag(e)
    \/ \E e \in HotkeyEngine : DStopCapture(e)
    \/ \E e \in HotkeyEngine : DShutdown(e)
    \/ \E e \in HotkeyEngine : DUnload(e)
    \/ NextSessions

SpecEngineFair == InitDaemon /\ [][NextEngineFair]_vars /\ FairEngine

-----------------------------------------------------------------------------
(* Properties of the daemon *)

SessionIds == 1..Len(sessions)

\* C13: at most one transcription is in progress in the daemon.
C13_OneTranscriptionAtATime ==
    Cardinality({s \in SessionIds : sessions[s].pc = "running"}) <= 1

\* C14: start_dictation on an engine that is dictating is refused and changes
\* neither the engine (flag, capture) nor any session (capture, consumer).
C14_StartRefusedWhenDictating ==
    [][(last'.op = "start" /\ engine[last'.e].is_dictating) =>
           /\ last'.result = "ignored"
           /\ engine' = engine
           /\ sessions' = sessions]_vars

C14_Witness ==
    /\ last.op = "start"
    /\ last.result = "ignored"
    /\ engine[last.e].capture # 0
    /\ sessions[engine[last.e].capture].tx
    /\ sessions[engine[last.e].capture].pc = "loop"

\* C15: at most one session (a running capture with its consumer task)
\* exists in the daemon.
C15_OneSessionAtATime ==
    Cardinality({s \in SessionIds :
                    sessions[s].tx /\ sessions[s].pc # "done"}) <= 1

C17_FailedStartLeavesEngineIdle ==
    (last.op = "start" /\ last.result = "err") => ~engine[last.e].is_dictating

\* C19: a hold-to-talk session dispatches nothing before stop-dictation, and
\* once its consumer is through with N >= 1 received chunks it has dispatched
\* exactly one segment, holding the N chunks in receive order, which was
\* transcribed once and injected at most once (once when that succeeded).
C19_HoldToTalkOneSegment ==
    ~dcfg.vad_enabled =>
        \A s \in SessionIds :
            LET x == sessions[s]
            IN  /\ Len(x.dispatched) <= 1
                /\ x.dispatched # <<>> =>
                       /\ x.stopped
                       /\ x.received # <<>>
                       /\ x.dispatched[1] = x.received
                /\ ~x.stopped => x.pc = "loop"
                /\ x.injected + x.failed <= Len(x.dispatched)
                /\ (x.pc \in {"waiting", "running"}) =>
                       (x.injected + x.failed = 0 /\ Len(x.dispatched) = 1)
                /\ (x.pc = "done" /\ x.received # <<>>) =>
                       (Len(x.dispatched) = 1 /\ x.injected + x.failed = 1)

C19_Witness ==
    /\ ~dcfg.vad_enabled
    /\ \E s \in SessionIds :
           /\ sessions[s].pc = "done"
           /\ sessions[s].received = <<1, 2>>
           /\ sessions[s].injected = 1

\* C20: once stop-dictation has been called for a session, its capture
\* producer is dropped and its consumer task terminates.
C20_StoppedSessionTerminates ==
    \A s \in 1..MaxFairSessions :
        (s \in SessionIds /\ sessions[s].stopped)
            ~> (s \in SessionIds /\ ~sessions[s].tx /\ sessions[s].pc = "done")

C20_Witness ==
    \E s \in SessionIds :
        /\ sessions[s].stopped
        /\ sessions[s].pc = "done"
        /\ Len(sessions[s].received) >= 2
        /\ sessions[s].injected + sessions[s].failed >= 1

-----------------------------------------------------------------------------
(* Daemon start-up: Lifecycle::start and IpcServer::start of several      *)
(* daemon processes on one control-socket path                            *)
(* (src/src/daemon/lifecycle.rs 36-68, src/src/ipc/server.rs 39-64)       *)

\* the daemon processes started on the machine
Instances == 1..MaxInstances

\* a daemon process before Lifecycle::start
NewInstance == [pc |-> "init", listener |-> FALSE, result |-> "none",
                starts |-> 1]

\* UnixStream::connect on the socket path succeeds: the path names a socket
\* whose listener is still open
Connects == sockfile # 0 /\ inst[sockfile].listener

\* Lifecycle::start up to the check: is_already_running pings the socket.
\* A connection to a listener whose accept loop does not run yet waits.
IsAlreadyRunning(d) ==
    /\ inst[d].pc = "init"
    /\ IF Connects
       THEN /\ inst[sockfile].pc = "serving"
            /\ inst' = [inst EXCEPT ![d].pc = "failed",
                                    ![d].result = "already_running"]
       ELSE inst' = [inst EXCEPT ![d].pc = "checked"]
    /\ UNCHANGED sockfile
    /\ UNCHANGED <<life, ipc, acap, bp, cli>>
    /\ UNCHANGED <<vadVars, capVars, mdlVars, taskVars, dmnVars, extVars>>

\* IpcServer::start: remove_file when the socket path exists
ServerRemoveFile(d) ==
    /\ inst[d].pc = "checked"
    /\ sockfile' = 0
    /\ inst' = [inst EXCEPT ![d].pc = "unlinked"]
    /\ UNCHANGED <<life, ipc, acap, bp, cli>>
    /\ UNCHANGED <<vadVars, capVars, mdlVars, taskVars, dmnVars, extVars>>

\* IpcServer::start: UnixListener::bind; on failure the `?` leaves start and
\* the IpcServer is dropped, whose stop() removes the file at the path
ServerBind(d) ==
    /\ inst[d].pc = "unlinked"
    /\ IF sockfile # 0
       THEN /\ sockfile' = 0
            /\ inst' = [inst EXCEPT ![d].pc = "failed",
                                    ![d].result = "bind_failed"]
       ELSE /\ sockfile' = d
            /\ inst' = [inst EXCEPT ![d].pc = "bound", ![d].listener = TRUE]
    /\ UNCHANGED <<life, ipc, acap, bp, cli>>
    /\ UNCHANGED <<vadVars, capVars, mdlVars, taskVars, dmnVars, extVars>>

\* set_ready and run_event_loop spawning IpcServer::run
ServerRun(d) ==
    /\ inst[d].pc = "bound"
    /\ inst' = [inst EXCEPT ![d].pc = "serving", ![d].result = "ok"]
    /\ UNCHANGED sockfile
    /\ UNCHANGED <<life, ipc, acap, bp, cli>>
    /\ UNCHANGED <<vadVars, capVars, mdlVars, taskVars, dmnVars, extVars>>

\* shutdown: the server task is aborted, the IpcServer is dropped with its
\* listener, and its stop() removes the file at the path
ServerStop(d) ==
    /\ inst[d].pc = "serving"
    /\ sockfile' = 0
    /\ inst' = [inst EXCEPT ![d].pc = "stopped", ![d].listener = FALSE]
    /\ UNCHANGED <<life, ipc, acap, bp, cli>>
    /\ UNCHANGED <<vadVars, capVars, mdlVars, taskVars, dmnVars, extVars>>

\* the daemon is started once more
StartAgain(d) ==
    /\ inst[d].pc \in {"failed", "stopped"}
    /\ inst[d].starts < MaxStarts
    /\ inst' = [inst EXCEPT ![d].pc = "init", ![d].result = "none",
                            ![d].starts = @ + 1]
    /\ UNCHANGED sockfile
    /\ UNCHANGED <<life, ipc, acap, bp, cli>>
    /\ UNCHANGED <<vadVars, capVars, mdlVars, taskVars, dmnVars, extVars>>

\* the other sections at rest
StartupRest ==
    /\ VadFresh(DefaultVadConfig, [kind |-> "off", rms |-> 0])
    /\ CaptureIdle
    /\ ModelIdle
    /\ TaskIdle
    /\ DaemonIdle
    /\ ExtIdle

InitStartup ==
    /\ StartupRest
    /\ sockfile = 0
    /\ inst = [d \in Instances |-> NewInstance]
    /\ life = [pc |-> "none"]
    /\ ipc = [pc |-> "none"]
    /\ acap = [pc |-> "none"]
    /\ bp = [pc |-> "none"]
    /\ cli = [pc |-> "none"]

NextStartup ==
    \/ \E d \in Instances : IsAlreadyRunning(d)
    \/ \E d \in Instances : ServerRemoveFile(d)
    \/ \E d \in Instances : ServerBind(d)
    \/ \E d \in Instances : ServerRun(d)
    \/ \E d \in Instances : ServerStop(d)
    \/ \E d \in Instances : StartAgain(d)

SpecStartup == InitStartup /\ [][NextStartup]_vars

\* C21: at most one daemon instance is bound to and serving the control
\* socket, and a start that finds a responding instance fails as already
\* running and leaves the socket path as it is.
C21_OneInstanceServing ==
    /\ Cardinality({d \in Instances :
                       inst[d].listener /\ inst[d].pc = "serving"}) <= 1
    /\ \A d \in Instances :
           inst[d].result = "already_running" => ~inst[d].listener

-----------------------------------------------------------------------------
(* Daemon lifecycle: Lifecycle::run_event_loop with the dictation thread,  *)
(* its retry loop and command loop, the control-socket commands that reach *)
(* DaemonState, and shutdown                                               *)
(* (src/src/daemon/lifecycle.rs 71-201, src/src/daemon/state.rs)           *)

\* `let max_retries = 3;`
max_retries == 3

DictationCommands == {"Start", "Stop"}

\* with_history returns Ok or Err (permissions missing)
ConstructOutcomes == {"ok", "err"}

\* the retry loop never giving up
RetriesExhaustedNever(n) == FALSE

\* `if retry_count >= max_retries`
RetriesExhausted(n) == n >= max_retries

\* Lifecycle::start returns Ok from its event loop, or Err before it (a
\* daemon already running, or the bind failing)
StartOutcomes == {"ok", "err"}

\* DaemonState::shutdown without the store to shutdown_requested
ShutdownStateOnly(l) == [l EXCEPT !.state = "ShuttingDown"]

\* DaemonState::shutdown
Shutdown(l) == [l EXCEPT !.state = "ShuttingDown", !.shutdown_requested = TRUE]

\* DaemonState::status: the fields of DaemonStatus that depend on dictation
Status(l) == [state |-> l.state, is_dictating |-> l.is_dictating]

\* Lifecycle::new: DaemonState::new, nothing started
NewLifecycle ==
    [state |-> "Starting", shutdown_requested |-> FALSE, is_dictating |-> FALSE,
     main |-> "start", server |-> "none", dict |-> "none",
     dictation_tx |-> FALSE,
     cmd_rx |-> FALSE, queue |-> <<>>, retry_count |-> 0, attempts |-> 0,
     sleeps |-> 0, ipc_dictating |-> FALSE, hotkey |-> "none",
     hotkey_dictating |-> FALSE, response |-> "none",
     status |-> [state |-> "none", is_dictating |-> FALSE]]

\* every section but the lifecycle at rest
LifecycleFrame ==
    /\ UNCHANGED <<sockfile, inst, ipc, acap, bp, cli>>
    /\ UNCHANGED <<vadVars, capVars, mdlVars, taskVars, dmnVars, extVars>>

\* Lifecycle::start: the running check and IpcServer::start (bind), then
\* set_ready; run_event_loop spawns the server task and the dictation
\* thread and waits in select!
LifecycleStart ==
    /\ life.main = "start"
    /\ \E outcome \in StartOutcomes :
          IF outcome = "ok"
          THEN life' = [life EXCEPT !.state = "Idle", !.server = "running",
                                    !.main = "select", !.dict = "init"]
          ELSE life' = [life EXCEPT !.main = "failed"]
    /\ LifecycleFrame

\* the dictation thread creates the command channel and registers its
\* sender with DaemonState
DictRegister ==
    /\ life.main # "stopped"
    /\ life.dict = "init"
    /\ life' = [life EXCEPT !.dict = "construct", !.dictation_tx = TRUE,
                            !.cmd_rx = TRUE]
    /\ LifecycleFrame

\* one pass of the retry loop: DictationEngine::with_history; on Ok the
\* hotkey thread is spawned and the command loop entered, on Err the count
\* is raised and the loop gives up or goes to sleep
DictConstruct ==
    /\ life.main # "stopped"
    /\ life.dict = "construct"
    /\ life.attempts < MaxAttempts
    /\ \E outcome \in ConstructOutcomes :
          IF outcome = "ok"
          THEN life' = [life EXCEPT !.attempts = @ + 1, !.dict = "cmd_loop",
                                    !.hotkey = "starting"]
          ELSE life' = [life EXCEPT
                   !.attempts = @ + 1,
                   !.retry_count = @ + 1,
                   !.dict = IF RetriesExhausted(life.retry_count + 1)
                            THEN "gave_up" ELSE "sleeping",
                   !.cmd_rx = IF RetriesExhausted(life.retry_count + 1)
                              THEN FALSE ELSE @]
    /\ LifecycleFrame

\* tokio::time::sleep(5 s) before the next attempt
DictSleep ==
    /\ life.main # "stopped"
    /\ life.dict = "sleeping"
    /\ life' = [life EXCEPT !.dict = "construct", !.sleeps = @ + 1]
    /\ LifecycleFrame

\* the hotkey thread: with_history and DictationEngine::start
HotkeyConstruct ==
    /\ life.main # "stopped"
    /\ life.hotkey = "starting"
    /\ \E outcome \in ConstructOutcomes :
          life' = [life EXCEPT !.hotkey = IF outcome = "ok" THEN "running"
                                          ELSE "failed"]
    /\ LifecycleFrame

\* the hotkey engine handles Pressed or Released
HotkeyEvent ==
    /\ life.main # "stopped"
    /\ life.hotkey = "running"
    /\ \E pressed \in BOOLEAN :
          life' = [life EXCEPT !.hotkey_dictating = pressed]
    /\ LifecycleFrame

\* the command loop: cmd_rx.recv and engine.start_dictation / stop_dictation
CommandLoop ==
    /\ life.main # "stopped"
    /\ life.dict = "cmd_loop"
    /\ life.queue # <<>>
    /\ life' = [life EXCEPT !.queue = Tail(@),
                            !.ipc_dictating = (Head(life.queue) = "Start")]
    /\ LifecycleFrame

\* handle_command for StartDictation / StopDictation:
\* DaemonState::start_dictation / stop_dictation send on dictation_tx
CmdDictation ==
    /\ life.main # "stopped"
    /\ life.server = "running"
    /\ \E c \in DictationCommands :
          IF life.dictation_tx /\ life.cmd_rx
          THEN /\ Len(life.queue) < MaxQueued
               /\ life' = [life EXCEPT !.queue = Append(@, c),
                                       !.response = "Success"]
          ELSE life' = [life EXCEPT !.response =
                   IF life.dictation_tx THEN "Error: not available"
                   ELSE "Error: not initialized"]
    /\ LifecycleFrame

\* handle_command for Shutdown: DaemonState::shutdown
CmdShutdown ==
    /\ life.main # "stopped"
    /\ life.server = "running"
    /\ life' = [Shutdown(life) EXCEPT !.response = "Success"]
    /\ LifecycleFrame

\* handle_command for GetStatus: Response::Status(state.status())
CmdGetStatus ==
    /\ life.main # "stopped"
    /\ life.server = "running"
    /\ life' = [life EXCEPT !.response = "Status", !.status = Status(life)]
    /\ LifecycleFrame

\* select! returns: SIGTERM / SIGINT, or wait_for_state_shutdown sees the flag
MainSelect ==
    /\ life.main = "select"
    /\ \E signal \in BOOLEAN : signal \/ life.shutdown_requested
    /\ life' = [life EXCEPT !.main = "cleanup"]
    /\ LifecycleFrame

\* cleanup: state.shutdown(), ipc_handle.abort(), "Daemon stopped"
MainCleanup ==
    /\ life.main = "cleanup"
    /\ life' = [Shutdown(life) EXCEPT !.server = "aborted", !.main = "stopped"]
    /\ LifecycleFrame

InitLifecycle ==
    /\ StartupRest
    /\ sockfile = 0
    /\ inst = <<>>
    /\ life = NewLifecycle
    /\ ipc = [pc |-> "none"]
    /\ acap = [pc |-> "none"]
    /\ bp = [pc |-> "none"]
    /\ cli = [pc |-> "none"]

\* a step of the dictation thread
DictThreadStep == DictRegister \/ DictConstruct \/ DictSleep

NextLifecycle ==
    \/ LifecycleStart
    \/ DictRegister
    \/ DictConstruct
    \/ DictSleep
    \/ HotkeyConstruct
    \/ HotkeyEvent
    \/ CommandLoop
    \/ CmdDictation
    \/ CmdShutdown
    \/ CmdGetStatus
    \/ MainSelect
    \/ MainCleanup

SpecLifecycle == InitLifecycle /\ [][NextLifecycle]_vars

\* the dictation thread keeps running while the process lives
SpecLifecycleFair == SpecLifecycle /\ WF_vars(DictThreadStep)

\* C22: when the daemon reports that it has stopped, no dictation session is
\* active on either engine and the dictation command loop has terminated.
C22_DictationStoppedBeforeReport ==
    life.main = "stopped" =>
        /\ ~life.ipc_dictating
        /\ ~life.hotkey_dictating
        /\ life.dict # "cmd_loop"

\* C23: construction is attempted at most max_retries times, with one wait
\* before every attempt after the first; the retry loop ends (in the command
\* loop or by giving up, unless the process ends first); giving up happens
\* after exactly max_retries failures and changes neither the daemon state
\* nor the server, which goes on answering commands.
C23_RetryLoopBounded ==
    /\ [](/\ life.attempts <= max_retries
          /\ life.dict = "construct" => life.sleeps = life.attempts
          /\ life.dict = "sleeping" => life.sleeps = life.attempts - 1
          /\ life.dict = "gave_up" =>
                 /\ life.attempts = max_retries
                 /\ life.retry_count = max_retries
                 /\ life.sleeps = max_retries - 1
          /\ (life.dict = "gave_up" /\ ~life.shutdown_requested
                  /\ life.main = "select") =>
                 (life.state = "Idle" /\ life.server = "running"))
    /\ [][(life.dict # "gave_up" /\ life'.dict = "gave_up") =>
              /\ life'.state = life.state
              /\ life'.shutdown_requested = life.shutdown_requested
              /\ life'.main = life.main
              /\ life'.server = life.server]_vars
    /\ (life.dict \in {"init", "construct", "sleeping"})
           ~> (life.dict \in {"cmd_loop", "gave_up"} \/ life.main = "stopped")

C23_Witness ==
    /\ life.dict = "gave_up"
    /\ life.attempts = max_retries
    /\ life.state = "Idle"
    /\ life.server = "running"
    /\ life.response = "Error: not available"

\* a dictation session is in progress on one of the two engines
InSession(l) == l.ipc_dictating \/ l.hotkey_dictating

\* C37: the status GetStatus returns has is_dictating = true and state =
\* Active exactly while a dictation session is in progress, and is_dictating
\* = false with state = Idle when none is and no shutdown was requested.
C37_StatusTracksSession ==
    [][CmdGetStatus =>
          /\ life'.status.is_dictating = InSession(life)
          /\ ~life.shutdown_requested =>
                 life'.status.state = IF InSession(life) THEN "Active" ELSE "Idle"]_vars

\* wait_for_state_shutdown finds the flag set at one of its polls
StateShutdownSeen == life.shutdown_requested /\ MainSelect

\* the main task keeps polling the flag and finishes its cleanup
SpecLifecycleMain ==
    SpecLifecycle /\ WF_vars(StateShutdownSeen) /\ WF_vars(MainCleanup)

-----------------------------------------------------------------------------
(* Control-socket server: IpcServer::run spawning one handle_client task   *)
(* per accepted connection  (src/src/ipc/server.rs 66-222)                 *)

\* Duration::from_millis(10) of IpcServer::new
min_request_interval == 10

\* `if message_len > 1_000_000`
MaxMessageLen == 1000000

\* libc::getuid() of the daemon
DaemonUid == 1000

\* UIDs of the peers that connect
PeerUids == {DaemonUid, 1001}

\* length prefixes a peer sends (u32, little endian)
MessageLens == {0, 24, MaxMessageLen, MaxMessageLen + 1, 2147483647}

Commands == {"Ping", "Shutdown", "GetStatus"}

\* what the payload bytes deserialize to: nothing (bincode error), a Message
\* that is no request, or a request with its command
Payloads == {"garbage", "Response"} \cup Commands

\* milliseconds the clock advances by between two steps
ClockSteps == {5, 10}

\* connection slots of the server
Conns == 1..MaxConns

\* no entry of the rate-limiter table
NoInstant == -1

\* the credential check passing every peer
CredentialsOkAlways(uid) == TRUE

\* `ucred.uid() != current_uid` is an error
CredentialsOk(uid) == uid = DaemonUid

\* no size check
TooLargeNever(len) == FALSE

\* the sanity check on the length prefix
TooLarge(len) == len > MaxMessageLen

\* no command limited
RateLimitedNever(last_request, now) == FALSE

\* `now.duration_since(*last_request) < min_request_interval`
\* (duration_since saturates at zero)
RateLimited(last_request, now) ==
    last_request # NoInstant /\ Max(0, now - last_request) < min_request_interval

\* the commands check_rate_limit lets through unconditionally
IsCritical(cmd) == cmd \in {"Shutdown", "Ping"}

\* a slot without connection
FreeConn == [pc |-> "free"]

\* a connection just accepted, its handle_client task spawned; history:
\* oversize (the length prefix read exceeds 1 MB), read_payload
NewConn(uid) ==
    [pc |-> "verify", uid |-> uid, oversize |-> FALSE, read_payload |-> FALSE,
     cmd |-> "none", now |-> NoInstant, executed |-> FALSE,
     response |-> "none"]

\* IpcServer::new with the DaemonState after set_ready; history:
\* lastAccepted (per UID, the time of the last non-critical command that
\* passed the rate check), closed (the connection that has just ended)
NewIpc ==
    [pc |-> "serving", now |-> 0,
     limiter |-> [u \in PeerUids |-> NoInstant],
     lastAccepted |-> [u \in PeerUids |-> NoInstant],
     state |-> "Idle", shutdown_requested |-> FALSE,
     conn |-> [k \in Conns |-> FreeConn], closed |-> FreeConn]

\* Response of handle_command
ResponseOf(cmd) ==
    CASE cmd = "Ping" -> "Pong"
      [] cmd = "GetStatus" -> "Status"
      [] OTHER -> "Success"

\* handle_client returns and its stream is dropped: the slot is free again
Closed(i, k, c, why) ==
    [i EXCEPT !.conn[k] = FreeConn,
              !.closed = [c EXCEPT !.pc = why]]

\* a step that ends no connection
Open(i) == [i EXCEPT !.closed = FreeConn]

IpcFrame ==
    /\ UNCHANGED <<sockfile, inst, life, acap, bp, cli>>
    /\ UNCHANGED <<vadVars, capVars, mdlVars, taskVars, dmnVars, extVars>>

\* time passes
IpcTick ==
    /\ \E dt \in ClockSteps :
          /\ ipc.now + dt <= MaxClock
          /\ ipc' = Open([ipc EXCEPT !.now = @ + dt])
    /\ IpcFrame

\* listener.accept and tokio::spawn(handle_client)
IpcAccept(k) ==
    /\ ipc.conn[k].pc = "free"
    /\ \E uid \in PeerUids :
          ipc' = Open([ipc EXCEPT !.conn[k] = NewConn(uid)])
    /\ IpcFrame

\* verify_client_credentials: peer_cred may fail; a foreign UID is an error;
\* `?` ends handle_client and the stream is dropped
IpcVerify(k) ==
    /\ ipc.conn[k].pc = "verify"
    /\ \E peer_cred_ok \in BOOLEAN :
          ipc' = IF peer_cred_ok /\ CredentialsOk(ipc.conn[k].uid)
                 THEN Open([ipc EXCEPT !.conn[k].pc = "read_len"])
                 ELSE Closed(ipc, k, ipc.conn[k], "unauthorized")
    /\ IpcFrame

\* read_exact of the 4 length bytes and the size check
IpcReadLen(k) ==
    /\ ipc.conn[k].pc = "read_len"
    /\ \E len \in MessageLens :
          LET c == [ipc.conn[k] EXCEPT !.oversize = len > MaxMessageLen]
          IN  ipc' = IF TooLarge(len)
                     THEN Closed(ipc, k, c, "too_large")
                     ELSE Open([ipc EXCEPT !.conn[k] =
                                   [c EXCEPT !.pc = "read_payload"]])
    /\ IpcFrame

\* read_exact of the payload and bincode::deserialize; a message that is no
\* request is answered with an error
IpcReadPayload(k) ==
    /\ ipc.conn[k].pc = "read_payload"
    /\ \E m \in Payloads :
          LET c == [ipc.conn[k] EXCEPT !.read_payload = TRUE]
          IN  ipc' =
                CASE m = "garbage" -> Closed(ipc, k, c, "undecodable")
                  [] m = "Response" ->
                       Open([ipc EXCEPT !.conn[k] =
                           [c EXCEPT !.pc = "respond",
                                     !.response = "Error: Invalid message type"]])
                  [] OTHER ->
                       Open([ipc EXCEPT !.conn[k] =
                           [c EXCEPT !.pc = "rate_now", !.cmd = m]])
    /\ IpcFrame

\* check_rate_limit up to the lock: critical commands return Ok at once,
\* the others read Instant::now() and wait for the limiter mutex
IpcRateNow(k) ==
    /\ ipc.conn[k].pc = "rate_now"
    /\ ipc' = IF IsCritical(ipc.conn[k].cmd)
              THEN Open([ipc EXCEPT !.conn[k].pc = "execute"])
              ELSE Open([ipc EXCEPT !.conn[k].pc = "rate_lock",
                                    !.conn[k].now = ipc.now])
    /\ IpcFrame

\* check_rate_limit under the lock: compare with the entry of the peer's
\* UID, then insert; `now` is gone when the function returns
IpcRateCheck(k) ==
    /\ ipc.conn[k].pc = "rate_lock"
    /\ LET c == ipc.conn[k]
           after == [c EXCEPT !.now = NoInstant]
       IN  ipc' = IF RateLimited(ipc.limiter[c.uid], c.now)
                  THEN Open([ipc EXCEPT !.conn[k] =
                            [after EXCEPT !.pc = "respond",
                                          !.response = "Error: Rate limited"]])
                  ELSE Open([ipc EXCEPT
                            !.conn[k] = [after EXCEPT !.pc = "execute"],
                            !.limiter[c.uid] = c.now,
                            !.lastAccepted[c.uid] = c.now])
    /\ IpcFrame

\* handle_command
IpcExecute(k) ==
    /\ ipc.conn[k].pc = "execute"
    /\ LET c == ipc.conn[k]
           done == [c EXCEPT !.pc = "respond", !.executed = TRUE,
                             !.response = ResponseOf(c.cmd)]
       IN  ipc' = IF c.cmd = "Shutdown"
                  THEN Open([ipc EXCEPT !.conn[k] = done,
                                        !.state = "ShuttingDown",
                                        !.shutdown_requested = TRUE])
                  ELSE Open([ipc EXCEPT !.conn[k] = done])
    /\ IpcFrame

\* the response is written and the stream dropped
IpcRespond(k) ==
    /\ ipc.conn[k].pc = "respond"
    /\ ipc' = Closed(ipc, k, ipc.conn[k], "responded")
    /\ IpcFrame

InitIpc ==
    /\ StartupRest
    /\ sockfile = 0
    /\ inst = <<>>
    /\ life = [pc |-> "none"]
    /\ ipc = NewIpc
    /\ acap = [pc |-> "none"]
    /\ bp = [pc |-> "none"]
    /\ cli = [pc |-> "none"]

NextIpc ==
    \/ IpcTick
    \/ \E k \in Conns : IpcAccept(k)
    \/ \E k \in Conns : IpcVerify(k)
    \/ \E k \in Conns : IpcReadLen(k)
    \/ \E k \in Conns : IpcReadPayload(k)
    \/ \E k \in Conns : IpcRateNow(k)
    \/ \E k \in Conns : IpcRateCheck(k)
    \/ \E k \in Conns : IpcExecute(k)
    \/ \E k \in Conns : IpcRespond(k)

SpecIpc == InitIpc /\ [][NextIpc]_vars

\* what a connection can change besides itself
IpcShared == <<ipc.limiter, ipc.state, ipc.shutdown_requested>>

\* the connections being handled and the one that has just ended
SeenConns ==
    {ipc.conn[k] : k \in {j \in Conns : ipc.conn[j].pc # "free"}}
        \cup (IF ipc.closed.pc = "free" THEN {} ELSE {ipc.closed})

\* C24: a non-critical command whose rate check comes less than
\* min_request_interval after the last accepted non-critical command of its
\* UID is answered "Rate limited", is not executed and leaves the table as it
\* is; Ping and Shutdown pass the rate check whatever the table holds, are
\* executed, and never change the table.
C24_RateLimit ==
    /\ [][\A k \in Conns :
             (ipc.conn[k].pc = "rate_lock" /\ ipc'.conn[k] # ipc.conn[k]) =>
                 LET c == ipc.conn[k]
                     accepted == ipc.lastAccepted[c.uid]
                 IN  (/\ accepted # NoInstant
                      /\ c.now >= accepted
                      /\ c.now - accepted < min_request_interval) =>
                         /\ ipc'.conn[k].pc = "respond"
                         /\ ipc'.conn[k].response = "Error: Rate limited"
                         /\ ~ipc'.conn[k].executed
                         /\ IpcShared' = IpcShared]_vars
    /\ [][\A k \in Conns :
             (/\ ipc.conn[k].pc # "free"
              /\ ipc.conn[k].cmd \in {"Ping", "Shutdown"}
              /\ ipc'.conn[k] # ipc.conn[k]) =>
                 /\ ipc'.limiter = ipc.limiter
                 /\ ipc.conn[k].pc = "rate_now" => ipc'.conn[k].pc = "execute"]_vars
    /\ [](\A c \in SeenConns :
             /\ c.response = "Error: Rate limited" =>
                    (~c.executed /\ c.cmd \notin {"Ping", "Shutdown"})
             /\ (c.cmd \in {"Ping", "Shutdown"}
                     /\ c.pc \in {"respond", "responded"}) =>
                    (c.executed /\ c.response = ResponseOf(c.cmd)))

C24_Witness ==
    /\ ipc.closed.pc = "responded"
    /\ ipc.closed.response = "Error: Rate limited"
    /\ ipc.limiter[DaemonUid] # NoInstant
    /\ ipc.now > ipc.limiter[DaemonUid]

\* C25: a connection whose length prefix exceeds 1 MB ends at the size
\* check: its payload is not read, no command is executed, no response is
\* written, and the step changes neither the daemon state nor the table.
C25_OversizeRejected ==
    /\ [](\A c \in SeenConns :
             c.oversize =>
                 /\ c.pc = "too_large"
                 /\ ~c.read_payload
                 /\ ~c.executed
                 /\ c.cmd = "none"
                 /\ c.response = "none")
    /\ [][ipc'.closed.pc = "too_large" => IpcShared' = IpcShared]_vars

C25_Witness ==
    /\ ipc.closed.pc = "too_large"
    /\ ipc.closed.oversize
    /\ ipc.limiter[DaemonUid] # NoInstant
    /\ ipc.state = "ShuttingDown"

\* C26: a connection whose peer UID is not the daemon's never gets past the
\* credential check: nothing is read from it, nothing executed, nothing
\* answered, and closing it changes neither the daemon state nor the table.
C26_ForeignUidRejected ==
    /\ [](\A c \in SeenConns :
             c.uid # DaemonUid =>
                 /\ c.pc \in {"verify", "unauthorized"}
                 /\ ~c.oversize
                 /\ ~c.read_payload
                 /\ ~c.executed
                 /\ c.cmd = "none"
                 /\ c.response = "none")
    /\ [][ipc'.closed.pc = "unauthorized" => IpcShared' = IpcShared]_vars

C26_Witness ==
    /\ ipc.closed.pc = "unauthorized"
    /\ ipc.closed.uid # DaemonUid
    /\ \E k \in Conns : ipc.conn[k].pc = "execute"

-----------------------------------------------------------------------------
(* AudioCapture as an object: new, start, stop, Drop, the stream's callback
   and the receiver start returns  (src/src/audio/capture.rs) *)

\* calls of start on one AudioCapture
MaxAcapStarts == 2

\* chunks the callbacks of one AudioCapture build
MaxAcapPushes == 3

\* configurations handed to AudioCapture::new: around each validated bound
AcapConfigs ==
    [sample_rate : {16000, 32000}, chunk_duration_ms : {9, 1000, 1001},
     buffer_capacity_secs : {0, 1, 60, 61}]

\* how far start gets with the input device
DeviceOutcomes == {"NoDevice", "NoConfig", "BadFormat", "BuildFails", "PlayFails", "Ok"}

\* AudioCapture::new
NewAudioCapture(cfg) ==
    [pc |-> "live", config |-> cfg, is_running |-> FALSE, stream |-> 0,
     channel_open |-> FALSE, chunk_tx |-> 0, chans |-> <<>>, pushes |-> 0,
     starts |-> 0, lookups |-> 0, op |-> [name |-> "new", result |-> "Ok"]]

\* mpsc::channel: the queue, the receiver half, and what recv has yielded
NewChannel(rx) == [queue |-> <<>>, rx |-> rx, none |-> FALSE, late |-> FALSE]

\* the Sender clones of channel c: AudioCapture::chunk_tx and the one moved
\* into the stream's callback
Senders(a, c) ==
    (IF a.chunk_tx = c THEN 1 ELSE 0) + (IF a.stream = c THEN 1 ELSE 0)

\* AudioCapture::start looking the device up before validating
StartOnDeviceFirst(a, dev) ==
    LET called == [a EXCEPT !.starts = a.starts + 1]
        c == Len(a.chans) + 1
    IN  IF a.is_running
        THEN [called EXCEPT !.op = [name |-> "start", result |-> "AlreadyRunning"]]
        ELSE IF dev \in {"NoDevice", "NoConfig"}
        THEN [called EXCEPT !.lookups = a.lookups + 1,
                            !.op = [name |-> "start", result |-> dev]]
        ELSE IF ~Validate(a.config)
        THEN [called EXCEPT !.lookups = a.lookups + 1,
                            !.op = [name |-> "start", result |-> "Config"]]
        ELSE IF dev # "Ok"
        THEN [called EXCEPT !.lookups = a.lookups + 1,
                            !.chans = Append(a.chans, NewChannel("dropped")),
                            !.chunk_tx = c,
                            !.op = [name |-> "start", result |-> dev]]
        ELSE [called EXCEPT !.lookups = a.lookups + 1,
                            !.chans = Append(a.chans, NewChannel("held")),
                            !.chunk_tx = c, !.stream = c, !.channel_open = TRUE,
                            !.is_running = TRUE,
                            !.op = [name |-> "start", result |-> "Ok"]]

\* AudioCapture::start
StartOn(a, dev) ==
    LET called == [a EXCEPT !.starts = a.starts + 1]
        c == Len(a.chans) + 1
    IN  IF a.is_running
        THEN [called EXCEPT !.op = [name |-> "start", result |-> "AlreadyRunning"]]
        ELSE IF ~Validate(a.config)
        THEN [called EXCEPT !.op = [name |-> "start", result |-> "Config"]]
        ELSE IF dev \in {"NoDevice", "NoConfig"}
        THEN [called EXCEPT !.lookups = a.lookups + 1,
                            !.op = [name |-> "start", result |-> dev]]
        ELSE IF dev # "Ok"
        THEN [called EXCEPT !.lookups = a.lookups + 1,
                            !.chans = Append(a.chans, NewChannel("dropped")),
                            !.chunk_tx = c,
                            !.op = [name |-> "start", result |-> dev]]
        ELSE [called EXCEPT !.lookups = a.lookups + 1,
                            !.chans = Append(a.chans, NewChannel("held")),
                            !.chunk_tx = c, !.stream = c, !.channel_open = TRUE,
                            !.is_running = TRUE,
                            !.op = [name |-> "start", result |-> "Ok"]]

\* AudioCapture::stop leaving chunk_tx in place
StopOnKeepsSender(a) ==
    IF ~a.is_running THEN a
    ELSE [a EXCEPT !.is_running = FALSE, !.stream = 0, !.channel_open = FALSE]

\* AudioCapture::stop
StopOn(a) ==
    IF ~a.is_running THEN a
    ELSE [a EXCEPT !.is_running = FALSE, !.stream = 0, !.channel_open = FALSE,
                   !.chunk_tx = 0]

AcapFrame ==
    /\ UNCHANGED <<sockfile, inst, life, ipc, bp, cli>>
    /\ UNCHANGED <<vadVars, capVars, mdlVars, taskVars, dmnVars, extVars>>

AcapStart(dev) ==
    /\ acap.pc = "live"
    /\ acap.starts < MaxAcapStarts
    /\ acap' = StartOn(acap, dev)
    /\ AcapFrame

AcapStop ==
    /\ acap.pc = "live"
    /\ acap' = [StopOn(acap) EXCEPT !.op = [name |-> "stop", result |-> "Ok"]]
    /\ AcapFrame

\* Drop for AudioCapture: stop, then the fields are dropped
AcapDrop ==
    /\ acap.pc = "live"
    /\ acap' = [StopOn(acap) EXCEPT !.pc = "dropped", !.chunk_tx = 0,
                                    !.op = [name |-> "drop", result |-> "Ok"]]
    /\ AcapFrame

\* the input callback completing one chunk: the match on try_send
AcapCallback ==
    /\ acap.pc = "live"
    /\ acap.stream # 0
    /\ acap.is_running /\ acap.channel_open
    /\ acap.pushes < MaxAcapPushes
    /\ LET c == acap.stream
           id == acap.pushes + 1
           r == TrySend(acap.chans[c].queue, ChannelCapacity(acap.config),
                        acap.chans[c].rx = "held", id)
       IN  acap' = [acap EXCEPT !.chans[c].queue = r.chan,
                                !.channel_open = (r.result # "Closed"),
                                !.pushes = id,
                                !.op = [name |-> "push", result |-> r.result]]
    /\ AcapFrame

\* Receiver::recv on the receiver start returned for channel c
AcapRecv(c) ==
    /\ acap.pc # "none"
    /\ c \in DOMAIN acap.chans
    /\ acap.chans[c].rx = "held"
    /\ ~acap.chans[c].none
    /\ LET ch == acap.chans[c]
       IN  IF ch.queue # <<>>
           THEN acap' = [acap EXCEPT
                    !.chans[c].queue = Tail(ch.queue),
                    !.chans[c].late = ch.late \/ Senders(acap, c) = 0,
                    !.op = [name |-> "recv", result |-> "Some", chan |-> c,
                            chunk |-> Head(ch.queue)]]
           ELSE /\ Senders(acap, c) = 0
                /\ acap' = [acap EXCEPT
                       !.chans[c].none = TRUE,
                       !.op = [name |-> "recv", result |-> "None", chan |-> c,
                               chunk |-> 0]]
    /\ AcapFrame

\* the consumer drops the receiver
AcapRxDrop(c) ==
    /\ acap.pc # "none"
    /\ c \in DOMAIN acap.chans
    /\ acap.chans[c].rx = "held"
    /\ acap' = [acap EXCEPT !.chans[c].rx = "dropped", !.chans[c].queue = <<>>,
                            !.op = [name |-> "rxdrop", result |-> "Ok"]]
    /\ AcapFrame

InitAcap ==
    /\ StartupRest
    /\ sockfile = 0
    /\ inst = <<>>
    /\ life = [pc |-> "none"]
    /\ ipc = [pc |-> "none"]
    /\ \E cfg \in AcapConfigs : acap = NewAudioCapture(cfg)
    /\ bp = [pc |-> "none"]
    /\ cli = [pc |-> "none"]

AcapChans == 1..MaxAcapStarts

NextAcap ==
    \/ \E dev \in DeviceOutcomes : AcapStart(dev)
    \/ AcapStop
    \/ AcapDrop
    \/ AcapCallback
    \/ \E c \in AcapChans : AcapRecv(c)
    \/ \E c \in AcapChans : AcapRxDrop(c)

SpecAcap == InitAcap /\ [][NextAcap]_vars

\* C27: a call of start on a capture whose configuration does not pass
\* validate returns the configuration error without any device lookup and
\* without creating a channel or a stream, and the capture is not running
\* afterwards.
C27_InvalidConfigRejectedFirst ==
    [][(acap.pc = "live" /\ acap'.starts = acap.starts + 1
        /\ ~Validate(acap.config))
       => /\ acap'.op = [name |-> "start", result |-> "Config"]
          /\ acap'.lookups = acap.lookups
          /\ acap'.chans = acap.chans
          /\ acap'.chunk_tx = acap.chunk_tx
          /\ acap'.stream = acap.stream
          /\ ~acap'.is_running]_vars

C27_Witness ==
    /\ acap.pc = "live"
    /\ acap.op = [name |-> "start", result |-> "Config"]
    /\ acap.config.sample_rate \in ValidSampleRates
    /\ acap.config.chunk_duration_ms \in 10..1000
    /\ acap.config.buffer_capacity_secs = 61
    /\ acap.starts = 2

\* C28: stop on a capture that is not running changes nothing and returns Ok,
\* stop after stop changes nothing more, stop leaves the queued chunks in
\* place and no Sender of a returned receiver's channel alive, and recv
\* yields None only on an empty queue whose Senders are all dropped; the
\* chunks come out in the order they were queued.
C28_StopIdempotentAndDrains ==
    /\ [](acap.pc = "live" =>
            /\ (~acap.is_running => StopOn(acap) = acap)
            /\ StopOn(StopOn(acap)) = StopOn(acap)
            /\ (acap.op.name = "stop" => acap.op.result = "Ok" /\ ~acap.is_running)
            /\ \A c \in DOMAIN acap.chans :
                  /\ (~acap.is_running /\ acap.chans[c].rx = "held")
                         => Senders(acap, c) = 0
                  /\ acap.chans[c].none
                         => Senders(acap, c) = 0 /\ acap.chans[c].queue = <<>>)
    /\ [][(acap.pc = "live" /\ acap'.op.name \in {"stop", "drop"}
           /\ acap'.op # acap.op)
              => acap'.chans = acap.chans]_vars
    /\ [][\A c \in DOMAIN acap.chans :
            (acap'.op.name = "recv" /\ acap'.op # acap.op /\ acap'.op.chan = c)
              => IF acap.chans[c].queue # <<>>
                 THEN /\ acap'.op.result = "Some"
                      /\ acap'.op.chunk = Head(acap.chans[c].queue)
                      /\ acap'.chans[c].queue = Tail(acap.chans[c].queue)
                 ELSE /\ acap'.op.result = "None"
                      /\ Senders(acap, c) = 0]_vars

C28_Witness ==
    /\ acap.pc = "live"
    /\ ~acap.is_running
    /\ acap.op.name = "recv" /\ acap.op.result = "None"
    /\ acap.chans[acap.op.chan].late
    /\ acap.starts = 1

-----------------------------------------------------------------------------
(* Backpressure in the input callback: dropped_chunks and the rate-limited
   warning  (src/src/audio/capture.rs, build_input_stream) *)

\* chunks the callback builds
MaxBpChunks == 12

\* streams built one after the other by the same capture
MaxBpStreams == 2

\* milliseconds of clock
MaxBpClock == 10000

\* seconds between two buffer-full warnings
WarnIntervalSecs == 5

\* the capture configuration start_dictation builds by default
BpConfig ==
    [sample_rate |-> 16000, chunk_duration_ms |-> 200, buffer_capacity_secs |-> 2]

\* milliseconds the clock advances between two observations
BpClockSteps == {2499, 2500}

\* the warning condition without the rate limit
WarnDueAlways(last_warning, now) == TRUE

\* last_warning.elapsed().as_secs() >= 5
WarnDue(last_warning, now) ==
    (now - last_warning) \div 1000 >= WarnIntervalSecs

\* build_input_stream: the callback's captured state
NewStream(now, streams, calls, log) ==
    [pc |-> "idle", now |-> now, queue |-> <<>>, rx |-> TRUE,
     channel_open |-> TRUE, dropped_chunks |-> 0, last_warning |-> now,
     streams |-> streams, calls |-> calls, log |-> log, result |-> "none"]

BpFrame ==
    /\ UNCHANGED <<sockfile, inst, life, ipc, acap, cli>>
    /\ UNCHANGED <<vadVars, capVars, mdlVars, taskVars, dmnVars, extVars>>

\* Instant::now advances
BpTick(d) ==
    /\ bp.pc # "none"
    /\ bp.now + d <= MaxBpClock
    /\ bp' = [bp EXCEPT !.now = bp.now + d]
    /\ BpFrame

\* the callback completes a chunk: try_send and its match, up to the warning
BpCallback ==
    /\ bp.pc = "idle"
    /\ bp.channel_open
    /\ bp.calls < MaxBpChunks
    /\ LET r == TrySend(bp.queue, ChannelCapacity(BpConfig), bp.rx, bp.calls + 1)
       IN  bp' = [bp EXCEPT
                 !.queue = r.chan,
                 !.calls = bp.calls + 1,
                 !.result = r.result,
                 !.dropped_chunks = CASE r.result = "Ok" -> 0
                                      [] r.result = "Full" -> bp.dropped_chunks + 1
                                      [] OTHER -> bp.dropped_chunks,
                 !.channel_open = (r.result # "Closed"),
                 !.pc = IF r.result = "Full" /\ WarnDue(bp.last_warning, bp.now)
                        THEN "warn" ELSE "idle"]
    /\ BpFrame

\* warn!("Audio buffer full, dropped {} chunks ...")
BpWarn ==
    /\ bp.pc = "warn"
    /\ bp' = [bp EXCEPT !.pc = "set_last", !.log = Append(bp.log, bp.now)]
    /\ BpFrame

\* last_warning = Instant::now()
BpSetLast ==
    /\ bp.pc = "set_last"
    /\ bp' = [bp EXCEPT !.pc = "idle", !.last_warning = bp.now]
    /\ BpFrame

\* the consumer takes a chunk
BpRecv ==
    /\ bp.pc # "none"
    /\ bp.rx
    /\ bp.queue # <<>>
    /\ bp' = [bp EXCEPT !.queue = Tail(bp.queue)]
    /\ BpFrame

\* the consumer drops the receiver
BpRxDrop ==
    /\ bp.pc # "none"
    /\ bp.rx
    /\ bp' = [bp EXCEPT !.rx = FALSE, !.queue = <<>>]
    /\ BpFrame

\* stop and start again: the stream is dropped between two callbacks and
\* another one is built
BpRestart ==
    /\ bp.pc = "idle"
    /\ bp.streams < MaxBpStreams
    /\ bp' = NewStream(bp.now, bp.streams + 1, bp.calls, bp.log)
    /\ BpFrame

InitBp ==
    /\ StartupRest
    /\ sockfile = 0
    /\ inst = <<>>
    /\ life = [pc |-> "none"]
    /\ ipc = [pc |-> "none"]
    /\ acap = [pc |-> "none"]
    /\ bp = NewStream(0, 1, 0, <<>>)
    /\ cli = [pc |-> "none"]

NextBp ==
    \/ \E d \in BpClockSteps : BpTick(d)
    \/ BpCallback
    \/ BpWarn
    \/ BpSetLast
    \/ BpRecv
    \/ BpRxDrop
    \/ BpRestart

SpecBackpressure == InitBp /\ [][NextBp]_vars

\* C29: every try_send that returns Full raises dropped_chunks by one, and
\* any two buffer-full warnings of a capture are at least five seconds apart.
C29_DropsCountedWarningsSpaced ==
    /\ [][(bp.pc = "idle" /\ bp'.calls = bp.calls + 1 /\ bp'.result = "Full")
            => /\ bp'.dropped_chunks = bp.dropped_chunks + 1
               /\ bp'.queue = bp.queue]_vars
    /\ [](bp.pc # "none" =>
            \A i, j \in DOMAIN bp.log :
                i < j => bp.log[j] - bp.log[i] >= WarnIntervalSecs * 1000)

C29_Witness ==
    /\ bp.pc = "idle"
    /\ Len(bp.log) = 2
    /\ bp.log[2] - bp.log[1] = WarnIntervalSecs * 1000
    /\ bp.result = "Full"
    /\ bp.dropped_chunks >= 2

-----------------------------------------------------------------------------
(* WhisperCppCli: transcribe through the whisper-cli child process
   (src/src/models/whisper_cpp_cli.rs) *)

\* calls of transcribe
MaxCliCalls == 2

\* Duration::from_secs(30) of transcribe, in milliseconds
CliTimeoutMs == 30000

\* Duration::from_millis(20) of the polling loop
PollSleepMs == 20

\* milliseconds one thread::sleep of the loop takes: the requested time, or
\* longer when the thread is scheduled late
SleepTimes == {PollSleepMs, CliTimeoutMs}

\* what stops transcribe before the child is spawned
PreSpawnOutcomes == {"ok", "bad_model_path", "wav_fails", "spawn_fails"}

\* how the child ends: exit status 0, another status, or ended and reaped by
\* the kernel (SIGCHLD ignored), after which try_wait reports an error
ChildEnds == {"success", "failure", "gone"}

\* what is left after the child exited with status 0
CollectOutcomes == {"ok", "read_fails", "parse_fails"}

\* started.elapsed() > timeout
TimedOut(elapsed) == elapsed > CliTimeoutMs

\* the timeout return leaving the child alone
OnTimeoutNoKill(c) ==
    [c EXCEPT !.pc = "idle", !.result = "Err: timed out"]

\* child.kill(), child.wait() and the timeout error
OnTimeout(c) ==
    [c EXCEPT !.pc = "idle", !.child = "killed", !.result = "Err: timed out"]

\* WhisperCppCli::new
NewCli ==
    [pc |-> "idle", loaded |-> FALSE, child |-> "none", elapsed |-> 0,
     calls |-> 0, result |-> "none"]

CliFrame ==
    /\ UNCHANGED <<sockfile, inst, life, ipc, acap, bp>>
    /\ UNCHANGED <<vadVars, capVars, mdlVars, taskVars, dmnVars, extVars>>

\* load: the binary and the model file exist, or not
CliLoad(found) ==
    /\ cli.pc = "idle"
    /\ found => ~cli.loaded
    /\ cli' = [cli EXCEPT !.loaded = found \/ cli.loaded,
                          !.result = IF found THEN "load: Ok" ELSE "load: Err"]
    /\ CliFrame

\* unload
CliUnload ==
    /\ cli.pc = "idle"
    /\ cli.loaded
    /\ cli' = [cli EXCEPT !.loaded = FALSE, !.result = "unload"]
    /\ CliFrame

\* transcribe up to cmd.spawn() in run_command_with_timeout
CliTranscribe(pre) ==
    /\ cli.pc = "idle"
    /\ cli.calls < MaxCliCalls
    /\ LET called == [cli EXCEPT !.calls = cli.calls + 1, !.elapsed = 0,
                                 !.child = "none"]
       IN  cli' = IF ~cli.loaded
                  THEN [called EXCEPT !.result = "Err: not loaded"]
                  ELSE IF pre # "ok"
                  THEN [called EXCEPT !.result = "Err: " \o pre]
                  ELSE [called EXCEPT !.pc = "try_wait", !.child = "running",
                                      !.result = "none"]
    /\ CliFrame

\* the child process ends by itself
ChildExit(how) ==
    /\ cli.pc # "none"
    /\ cli.child = "running"
    /\ cli' = [cli EXCEPT !.child = how]
    /\ CliFrame

\* child.try_wait()
CliTryWait ==
    /\ cli.pc = "try_wait"
    /\ cli' = CASE cli.child = "running" -> [cli EXCEPT !.pc = "check"]
                [] cli.child = "gone" ->
                       [cli EXCEPT !.pc = "idle", !.result = "Err: wait failed"]
                [] OTHER -> [cli EXCEPT !.pc = "collect"]
    /\ CliFrame

\* the timeout test; on expiry child.kill(), child.wait() and the error
CliCheck ==
    /\ cli.pc = "check"
    /\ cli' = IF TimedOut(cli.elapsed)
              THEN OnTimeout(cli)
              ELSE [cli EXCEPT !.pc = "sleep"]
    /\ CliFrame

\* std::thread::sleep(Duration::from_millis(20))
CliSleep(d) ==
    /\ cli.pc = "sleep"
    /\ cli' = [cli EXCEPT !.pc = "try_wait", !.elapsed = cli.elapsed + d]
    /\ CliFrame

\* child.wait_with_output(), the status test and parse_output
CliCollect(out) ==
    /\ cli.pc = "collect"
    /\ cli' = [cli EXCEPT
              !.pc = "idle",
              !.child = "reaped: " \o cli.child,
              !.result = CASE out = "read_fails" -> "Err: collect failed"
                           [] cli.child = "failure" -> "Err: whisper-cli failed"
                           [] out = "parse_fails" -> "Err: parse failed"
                           [] OTHER -> "Ok"]
    /\ CliFrame

InitCli ==
    /\ StartupRest
    /\ sockfile = 0
    /\ inst = <<>>
    /\ life = [pc |-> "none"]
    /\ ipc = [pc |-> "none"]
    /\ acap = [pc |-> "none"]
    /\ bp = [pc |-> "none"]
    /\ cli = NewCli

\* the steps of the thread that called transcribe
CliThreadStep ==
    \/ CliTryWait
    \/ CliCheck
    \/ \E d \in SleepTimes : CliSleep(d)
    \/ \E out \in CollectOutcomes : CliCollect(out)

NextCli ==
    \/ \E found \in BOOLEAN : CliLoad(found)
    \/ CliUnload
    \/ \E pre \in PreSpawnOutcomes : CliTranscribe(pre)
    \/ \E how \in ChildEnds : ChildExit(how)
    \/ CliTryWait
    \/ CliCheck
    \/ \E d \in SleepTimes : CliSleep(d)
    \/ \E out \in CollectOutcomes : CliCollect(out)

SpecCli == InitCli /\ [][NextCli]_vars

\* the calling thread keeps running; nothing is assumed of the child
SpecCliFair == SpecCli /\ WF_vars(CliThreadStep)

\* the child processes that are no longer running
ChildOver == {"none", "killed", "gone", "reaped: success", "reaped: failure"}

\* C30: every transcribe call returns; it returns Ok only after the child
\* exited with status 0 and its output was parsed, it reports the timeout only
\* after more than 30 s and with the child killed and reaped, no child is
\* running once the call has returned, and no step of a call changes loaded.
C30_TranscribeReturnsChildReaped ==
    /\ (cli.pc \notin {"none", "idle"}) ~> (cli.pc = "idle")
    /\ [](cli.pc = "idle" =>
            /\ cli.child \in ChildOver
            /\ (cli.result = "Ok" => cli.child = "reaped: success")
            /\ (cli.result = "Err: timed out"
                   => cli.child = "killed" /\ cli.elapsed > CliTimeoutMs))
    /\ [][(cli.pc \notin {"none", "idle"} \/ cli'.calls # cli.calls)
            => cli'.loaded = cli.loaded]_vars

C30_Witness ==
    /\ cli.pc = "try_wait"
    /\ cli.calls = 2
    /\ cli.loaded
    /\ cli.child = "running"
    /\ cli.elapsed = CliTimeoutMs - PollSleepMs

-----------------------------------------------------------------------------
(* EnergyVad hysteresis over the chunks fed since construction or reset *)

\* length of the run of chunks at the end of the feed whose has_speech is b
TrailingRun(f, b) ==
    LET other == {i \in 1..Len(f) : f[i].above # b}
    IN  IF other = {} THEN Len(f)
        ELSE Len(f) - (CHOOSE i \in other : \A j \in other : j <= i)

\* a step of the consumer loop that fed one chunk to detect
Fed == nextId' = nextId + 1 /\ Len(feed') = Len(feed) + 1

\* C31: in Silence speech_count is the length of the current run of
\* above-threshold chunks and is below min_speech_chunks; the detector turns
\* to Speech exactly on the above-threshold chunk that completes a run of
\* min_speech_chunks, and a below-threshold chunk leaves it in Silence with
\* speech_count 0.
C31_SilenceNeedsFullRun ==
    /\ [](det.current_state = "Silence" =>
             /\ det.speech_count = TrailingRun(feed, TRUE)
             /\ det.speech_count < vcfg.min_speech_chunks)
    /\ [][(Fed /\ det.current_state = "Silence") =>
             LET above == feed'[Len(feed')].above
             IN  /\ (det'.current_state = "Speech") <=>
                        (above /\ det.speech_count + 1 = vcfg.min_speech_chunks)
                 /\ det'.current_state = "Speech" =>
                        TrailingRun(feed', TRUE) >= vcfg.min_speech_chunks
                 /\ ~above => det'.speech_count = 0]_vars

C31_Witness ==
    /\ vcfg.min_speech_chunks = 2
    /\ det.current_state = "Speech"
    /\ det.speech_count = 2
    /\ Len(feed) = 4
    /\ feed[1].above /\ ~feed[2].above /\ feed[3].above /\ feed[4].above
    /\ segments = <<>>

\* C32: in Speech silence_count is the length of the current run of
\* below-threshold chunks and is below min_silence_chunks; the detector stays
\* in Speech on every chunk but the below-threshold one that completes a run
\* of min_silence_chunks, on which it returns to Silence, and an
\* above-threshold chunk sets silence_count to 0.
C32_SpeechHeldUntilFullSilence ==
    /\ [](det.current_state = "Speech" =>
             /\ det.silence_count = TrailingRun(feed, FALSE)
             /\ det.silence_count < vcfg.min_silence_chunks)
    /\ [][(Fed /\ det.current_state = "Speech") =>
             LET above == feed'[Len(feed')].above
             IN  /\ (det'.current_state = "Silence") <=>
                        (~above /\ det.silence_count + 1 = vcfg.min_silence_chunks)
                 /\ det'.current_state = "Silence" =>
                        TrailingRun(feed', FALSE) >= vcfg.min_silence_chunks
                 /\ above => det'.silence_count = 0
                 /\ (~above /\ det'.current_state = "Speech") =>
                        det'.silence_count = det.silence_count + 1]_vars

C32_Witness ==
    /\ vcfg.min_silence_chunks = 3
    /\ det.current_state = "Silence"
    /\ Len(feed) = 7
    /\ feed[1].above /\ feed[2].above /\ ~feed[3].above /\ feed[4].above
    /\ ~feed[5].above /\ ~feed[6].above /\ ~feed[7].above
    /\ Len(segments) = 1
    /\ segments[1].feedLen = 7

-----------------------------------------------------------------------------
(* VadProcessor::reset against VadProcessor::new: the same chunks fed to a
   processor that was used and reset and to a new one
   (src/src/vad/processor.rs, src/src/vad/energy.rs) *)

\* chunks processed before the reset
MaxBefore == 2

\* chunks processed after the reset
MaxAfter == 4

\* the configuration of both processors: fixed threshold, one chunk opens and
\* one chunk closes a segment
TwinConfig ==
    [DefaultVadConfig EXCEPT !.adaptive = FALSE, !.min_speech_chunks = 1,
                             !.min_silence_chunks = 1]

\* durations (ms) of the chunks a processor is handed
ChunkDurations == {100, 200}

\* VadProcessor::reset: the processor's own fields
ResetProcessor(p) ==
    [p EXCEPT !.state = "Idle", !.pre_roll_buffer = <<>>, !.speech_buffer = <<>>]

\* EnergyVad::reset
ResetDetector(d) ==
    [d EXCEPT !.speech_count = 0, !.silence_count = 0,
              !.current_state = "Silence", !.energy_history = <<>>,
              !.background_energy = 0]

NewTwin ==
    [pc |-> "before", proc |-> NewVadProcessor, det |-> NewEnergyVad,
     fresh_proc |-> NewVadProcessor, fresh_det |-> NewEnergyVad,
     before |-> 0, after |-> 0, durs |-> {},
     out |-> [decision |-> "none", segment |-> <<>>],
     fresh_out |-> [decision |-> "none", segment |-> <<>>]]

TwinFrame ==
    /\ UNCHANGED <<vadVars, capVars, mdlVars, taskVars, dmnVars, sysVars>>
    /\ UNCHANGED <<ind, history>>

\* process on the first processor, before its reset
TwinBefore(e, dur) ==
    /\ twin.pc = "before"
    /\ twin.before < MaxBefore
    /\ LET chunk == [id |-> twin.before + 1, rms |-> e, dur |-> dur]
           r == Process(twin.proc, twin.det, TwinConfig, chunk)
       IN  twin' = [twin EXCEPT !.proc = r.proc, !.det = r.det,
                                !.before = twin.before + 1,
                                !.durs = twin.durs \cup {dur}]
    /\ TwinFrame

\* reset on the first processor; the second one is constructed
TwinReset ==
    /\ twin.pc = "before"
    /\ twin' = [twin EXCEPT !.pc = "after",
                            !.proc = ResetProcessor(twin.proc),
                            !.det = ResetDetector(twin.det),
                            !.fresh_proc = NewVadProcessor,
                            !.fresh_det = NewEnergyVad]
    /\ TwinFrame

\* process of the same chunk on both processors
TwinAfter(e, dur) ==
    /\ twin.pc = "after"
    /\ twin.after < MaxAfter
    /\ LET chunk == [id |-> MaxBefore + twin.after + 1, rms |-> e, dur |-> dur]
           r == Process(twin.proc, twin.det, TwinConfig, chunk)
           f == Process(twin.fresh_proc, twin.fresh_det, TwinConfig, chunk)
       IN  twin' = [twin EXCEPT
                 !.proc = r.proc, !.det = r.det,
                 !.fresh_proc = f.proc, !.fresh_det = f.det,
                 !.after = twin.after + 1,
                 !.durs = twin.durs \cup {dur},
                 !.out = [decision |-> r.det.current_state, segment |-> r.segment],
                 !.fresh_out = [decision |-> f.det.current_state,
                                segment |-> f.segment]]
    /\ TwinFrame

InitTwin ==
    /\ VadFresh(DefaultVadConfig, [kind |-> "off", rms |-> 0])
    /\ CaptureIdle
    /\ ModelIdle
    /\ TaskIdle
    /\ DaemonIdle
    /\ SysOnlyIdle
    /\ twin = NewTwin
    /\ ind = [pc |-> "none"]
    /\ history = [pc |-> "none"]

NextTwin ==
    \/ \E e \in EnergyLevels, dur \in ChunkDurations : TwinBefore(e, dur)
    \/ TwinReset
    \/ \E e \in EnergyLevels, dur \in ChunkDurations : TwinAfter(e, dur)

SpecTwin == InitTwin /\ [][NextTwin]_vars

\* C33: after reset the processor gives, chunk by chunk, the decision and
\* the segment a newly constructed processor gives on the same chunks.
C33_ResetEqualsNew ==
    twin.pc = "after" => twin.out = twin.fresh_out

-----------------------------------------------------------------------------
(* The pre-roll buffer of VadProcessor *)

\* the least n with n * b >= a
CeilDiv(a, b) == (a + b - 1) \div b

\* C34: in Idle the pre-roll buffer holds at most
\* ceil(pre_roll_ms / chunk_ms) chunks, chunk_ms being the duration of the
\* first chunk processed, and every evicted chunk is older than every chunk
\* kept.
C34_PreRollBounded ==
    proc.state = "Idle" =>
        /\ Len(proc.pre_roll_buffer) <= CeilDiv(vcfg.pre_roll_ms, vcfg.chunk_ms)
        /\ \A e \in evicted : \A i \in 1..Len(proc.pre_roll_buffer) :
               e.id < proc.pre_roll_buffer[i].id

-----------------------------------------------------------------------------
(* The VAD-mode session after stop_dictation *)

\* C35: once stop_dictation has run (flag cleared, capture stopped and the
\* senders dropped) the session emits no further segment and dispatches no
\* further transcription.
C35_NoSegmentAfterStop ==
    [][(task.pc # "none" /\ ~task.is_dictating /\ ~task.tx) =>
          /\ segments' = segments
          /\ \A i \in 1..Len(task'.events) :
                 i > Len(task.events) => task'.events[i].ev # "dispatch"]_vars

-----------------------------------------------------------------------------
(* The recording indicator over the sessions of one DictationEngine
   (src/src/daemon/dictation.rs start_dictation, stop_dictation and the two
   consumer tasks; src/src/indicator.rs). A session is started once the
   consumer task of the session before it has ended. *)

\* sessions started
MaxIndStarts == 2

\* chunks queued in the session's channel
MaxIndQueued == 2

\* DictationEngine::new with RecordingIndicator::new: nothing shown
NewIndicatorEngine(vad_enabled) ==
    [pc |-> "idle", vad |-> vad_enabled, is_dictating |-> FALSE,
     indicator |-> "Hidden", since |-> "none", starts |-> 0, tx |-> FALSE,
     chan |-> 0, task |-> "none", collected |-> FALSE]

IndFrame ==
    /\ UNCHANGED <<vadVars, capVars, mdlVars, taskVars, dmnVars, sysVars>>
    /\ UNCHANGED <<twin, history>>

\* start_dictation: the flag, indicator.recording(), start_capture and the
\* spawn of the consumer task; with start_capture failing, `?` returns
IndStart(capture_ok) ==
    /\ ind.pc = "idle"
    /\ ind.task \in {"none", "done"}
    /\ ~ind.is_dictating
    /\ ind.starts < MaxIndStarts
    /\ ind' = IF capture_ok
              THEN [ind EXCEPT !.is_dictating = TRUE, !.indicator = "Recording",
                               !.since = "start", !.starts = ind.starts + 1,
                               !.tx = TRUE, !.chan = 0, !.task = "loop",
                               !.collected = FALSE]
              ELSE [ind EXCEPT !.is_dictating = TRUE, !.indicator = "Recording",
                               !.since = "start", !.starts = ind.starts + 1]
    /\ IndFrame

\* stop_dictation: is_dictating.store(false)
IndStopFlag ==
    /\ ind.pc = "idle"
    /\ ind.is_dictating
    /\ ind' = [ind EXCEPT !.is_dictating = FALSE, !.pc = "stop_indicator"]
    /\ IndFrame

\* stop_dictation: indicator.processing()
IndStopIndicator ==
    /\ ind.pc = "stop_indicator"
    /\ ind' = [ind EXCEPT !.indicator = "Processing", !.pc = "stop_capture"]
    /\ IndFrame

\* stop_dictation: audio_engine.stop_capture() and the return
IndStopCapture ==
    /\ ind.pc = "stop_capture"
    /\ ind' = [ind EXCEPT !.tx = FALSE, !.pc = "idle", !.since = "stop"]
    /\ IndFrame

\* the capture callback queues a chunk
IndPush ==
    /\ ind.pc # "none"
    /\ ind.tx
    /\ ind.task # "done"
    /\ ind.chan < MaxIndQueued
    /\ ind' = [ind EXCEPT !.chan = ind.chan + 1]
    /\ IndFrame

\* Ok(Some(chunk)): with VAD the chunk may complete a segment
\* (indicator.processing(), then the transcription is awaited); without VAD
\* it is collected
IndRecv(segment) ==
    /\ ind.task = "loop"
    /\ ind.chan > 0
    /\ segment => ind.vad
    /\ ind' = IF segment
              THEN [ind EXCEPT !.chan = ind.chan - 1, !.indicator = "Processing",
                               !.task = "transcribing"]
              ELSE [ind EXCEPT !.chan = ind.chan - 1,
                               !.collected = ind.collected \/ ~ind.vad]
    /\ IndFrame

\* transcribe_with_model returns: indicator.hide() on Ok, then the focus
\* settle sleep and inject
IndTranscribed(ok) ==
    /\ ind.task = "transcribing"
    /\ ind' = [ind EXCEPT !.indicator = IF ok THEN "Hidden" ELSE ind.indicator,
                          !.task = IF ind.vad THEN "after" ELSE "exit"]
    /\ IndFrame

\* VAD mode, after the match on the transcription:
\* if is_dictating { indicator.recording() }
IndAfter ==
    /\ ind.task = "after"
    /\ ind' = [ind EXCEPT !.indicator = IF ind.is_dictating THEN "Recording"
                                        ELSE ind.indicator,
                          !.task = "loop"]
    /\ IndFrame

\* Ok(None), or the timeout with is_dictating false: break; without VAD the
\* collected chunks are then transcribed (indicator.processing())
IndBreak ==
    /\ ind.task = "loop"
    /\ ind.chan = 0
    /\ ~ind.tx \/ ~ind.is_dictating
    /\ ind' = IF ~ind.vad /\ ind.collected
              THEN [ind EXCEPT !.indicator = "Processing", !.task = "transcribing"]
              ELSE [ind EXCEPT !.task = "exit"]
    /\ IndFrame

\* indicator.hide() at the end of the consumer task
IndExit ==
    /\ ind.task = "exit"
    /\ ind' = [ind EXCEPT !.indicator = "Hidden", !.task = "done"]
    /\ IndFrame

InitIndicator ==
    /\ VadFresh(DefaultVadConfig, [kind |-> "off", rms |-> 0])
    /\ CaptureIdle
    /\ ModelIdle
    /\ TaskIdle
    /\ DaemonIdle
    /\ SysOnlyIdle
    /\ twin = [pc |-> "none"]
    /\ history = [pc |-> "none"]
    /\ \E vad_enabled \in BOOLEAN : ind = NewIndicatorEngine(vad_enabled)

\* the steps of the consumer task and of its blocking worker
IndTaskStep ==
    \/ \E segment \in BOOLEAN : IndRecv(segment)
    \/ \E ok \in BOOLEAN : IndTranscribed(ok)
    \/ IndAfter
    \/ IndBreak
    \/ IndExit

\* the steps of stop_dictation after its first
IndHandlerStep == IndStopIndicator \/ IndStopCapture

NextIndicator ==
    \/ \E capture_ok \in BOOLEAN : IndStart(capture_ok)
    \/ IndStopFlag
    \/ IndStopIndicator
    \/ IndStopCapture
    \/ IndPush
    \/ \E segment \in BOOLEAN : IndRecv(segment)
    \/ \E ok \in BOOLEAN : IndTranscribed(ok)
    \/ IndAfter
    \/ IndBreak
    \/ IndExit

SpecIndicator == InitIndicator /\ [][NextIndicator]_vars

\* the runtime keeps running the consumer task and the handler
SpecIndicatorFair ==
    SpecIndicator /\ WF_vars(IndTaskStep) /\ WF_vars(IndHandlerStep)

\* C36: after every stop_dictation the indicator is eventually hidden and
\* stays hidden for as long as no start_dictation follows.
C36_IndicatorClearedAfterStop ==
    [](ind.since = "stop" =>
          <>(ind.since # "stop" \/ [](ind.indicator = "Hidden")))

-----------------------------------------------------------------------------
(* Transcription history: one HistoryManager with its history file and the
   clock HistoryEntry::new reads  (src/src/history.rs) *)

\* add_entry calls
MaxHistAdds == 4

\* delete_entry and clear calls
MaxHistDeletes == 2

\* seconds the clock advances
MaxHistTicks == 2

\* HistoryConfig values: bounded and unbounded, saving or not, disabled
HistConfigs ==
    { [enabled |-> TRUE,  max_entries |-> 2, auto_save |-> FALSE],
      [enabled |-> TRUE,  max_entries |-> 2, auto_save |-> TRUE],
      [enabled |-> TRUE,  max_entries |-> 0, auto_save |-> TRUE],
      [enabled |-> FALSE, max_entries |-> 2, auto_save |-> TRUE] }

\* HistoryEntry::new at second `now`: the id is the timestamp; n stands for
\* the text and the other fields
HistoryEntryNew(now, n) == [id |-> now, timestamp |-> now, n |-> n]

\* history files an earlier run left behind (written under any max_entries)
HistoryFiles ==
    { <<>>,
      <<HistoryEntryNew(0, 1)>>,
      <<HistoryEntryNew(0, 1), HistoryEntryNew(1, 2), HistoryEntryNew(2, 3)>> }

\* the last n elements of s
LastN(s, n) == IF Len(s) > n THEN SubSeq(s, Len(s) - n + 1, Len(s)) ELSE s

\* the limit enforced by dropping the newest entries
EnforceMaxEntriesOldest(cfg, entries) ==
    IF cfg.max_entries > 0 /\ Len(entries) > cfg.max_entries
    THEN SubSeq(entries, 1, cfg.max_entries)
    ELSE entries

\* add_entry: `entries.drain(0..excess)` when over max_entries
EnforceMaxEntries(cfg, entries) ==
    IF cfg.max_entries > 0 /\ Len(entries) > cfg.max_entries
    THEN SubSeq(entries, Len(entries) - cfg.max_entries + 1, Len(entries))
    ELSE entries

\* HistoryManager::new: the file is loaded when history is enabled
NewHistoryManager(cfg, file) ==
    [pc |-> "on", config |-> cfg, entries |-> IF cfg.enabled THEN file ELSE <<>>,
     file |-> file, clock |-> 3, next |-> Len(file) + 1,
     all |-> IF cfg.enabled THEN file ELSE <<>>, pure |-> TRUE,
     adds |-> 0, deletes |-> 0, ticks |-> 0,
     last |-> [op |-> "none", id |-> 0, ret |-> "none"]]

HistFrame ==
    /\ UNCHANGED <<vadVars, capVars, mdlVars, taskVars, dmnVars, sysVars>>
    /\ UNCHANGED <<twin, ind>>

\* a second passes
HistTick ==
    /\ history.pc = "on"
    /\ history.ticks < MaxHistTicks
    /\ history' = [history EXCEPT !.clock = history.clock + 1, !.ticks = history.ticks + 1]
    /\ HistFrame

\* add_entry(HistoryEntry::new(..)): push, enforce max_entries, auto-save
HistAdd(save_ok) ==
    /\ history.pc = "on"
    /\ history.adds < MaxHistAdds
    /\ (history.config.enabled /\ history.config.auto_save) \/ save_ok
    /\ LET entry == HistoryEntryNew(history.clock, history.next)
           kept  == EnforceMaxEntries(history.config, Append(history.entries, entry))
       IN  IF ~history.config.enabled
           THEN history' = [history EXCEPT !.adds = history.adds + 1,
                                     !.next = history.next + 1,
                                     !.last = [op |-> "add", id |-> entry.id,
                                               ret |-> "Ok"]]
           ELSE history' = [history EXCEPT
                    !.adds = history.adds + 1,
                    !.next = history.next + 1,
                    !.entries = kept,
                    !.all = Append(history.all, entry),
                    !.file = IF history.config.auto_save /\ save_ok THEN kept
                             ELSE history.file,
                    !.last = [op |-> "add", id |-> entry.id,
                              ret |-> IF save_ok THEN "Ok" ELSE "Err"]]
    /\ HistFrame

\* delete_entry(id): retain the entries with another id, save when one went
HistDelete(id, save_ok) ==
    /\ history.pc = "on"
    /\ history.deletes < MaxHistDeletes
    /\ LET kept    == SelectSeq(history.entries, LAMBDA e : e.id # id)
           deleted == Len(kept) < Len(history.entries)
       IN  /\ (history.config.enabled /\ deleted) \/ save_ok
           /\ IF ~history.config.enabled
              THEN history' = [history EXCEPT !.deletes = history.deletes + 1,
                                        !.last = [op |-> "delete", id |-> id,
                                                  ret |-> "Err"]]
              ELSE history' = [history EXCEPT
                       !.deletes = history.deletes + 1,
                       !.entries = kept,
                       !.pure = history.pure /\ ~deleted,
                       !.file = IF deleted /\ save_ok THEN kept ELSE history.file,
                       !.last = [op |-> "delete", id |-> id,
                                 ret |-> IF ~save_ok THEN "Err"
                                         ELSE IF deleted THEN "true"
                                         ELSE "false"]]
    /\ HistFrame

\* clear(): entries.clear() and save
HistClear(save_ok) ==
    /\ history.pc = "on"
    /\ history.deletes < MaxHistDeletes
    /\ history.config.enabled \/ save_ok
    /\ IF ~history.config.enabled
       THEN history' = [history EXCEPT !.deletes = history.deletes + 1,
                                 !.last = [op |-> "clear", id |-> 0,
                                           ret |-> "Err"]]
       ELSE history' = [history EXCEPT
                !.deletes = history.deletes + 1,
                !.entries = <<>>,
                !.pure = FALSE,
                !.file = IF save_ok THEN <<>> ELSE history.file,
                !.last = [op |-> "clear", id |-> 0,
                          ret |-> IF save_ok THEN "Ok" ELSE "Err"]]
    /\ HistFrame

InitHistory ==
    /\ VadFresh(DefaultVadConfig, [kind |-> "off", rms |-> 0])
    /\ CaptureIdle
    /\ ModelIdle
    /\ TaskIdle
    /\ DaemonIdle
    /\ SysOnlyIdle
    /\ twin = [pc |-> "none"]
    /\ ind = [pc |-> "none"]
    /\ \E cfg \in HistConfigs, file \in HistoryFiles :
          history = NewHistoryManager(cfg, file)

\* ids delete_entry is called with: those of the entries, and the present
\* second
DeleteIds == {history.entries[i].id : i \in 1..Len(history.entries)} \cup {history.clock}

NextHistory ==
    \/ HistTick
    \/ \E save_ok \in BOOLEAN : HistAdd(save_ok)
    \/ \E id \in DeleteIds, save_ok \in BOOLEAN : HistDelete(id, save_ok)
    \/ \E save_ok \in BOOLEAN : HistClear(save_ok)

SpecHistory == InitHistory /\ [][NextHistory]_vars

\* C39: on an enabled manager with max_entries = M > 0, once add_entry has
\* been called count() <= M, and after add_entry calls alone the entries are
\* the M most recently added ones (those loaded from the file first) in
\* insertion order; on a disabled manager add_entry changes nothing and
\* returns Ok.
C39_LastMaxEntriesKept ==
    /\ []((history.config.enabled /\ history.config.max_entries > 0 /\ history.adds > 0) =>
            /\ Len(history.entries) <= history.config.max_entries
            /\ history.pure => history.entries = LastN(history.all, history.config.max_entries))
    /\ [][(~history.config.enabled /\ history'.adds = history.adds + 1) =>
              /\ history'.entries = history.entries
              /\ history'.file = history.file
              /\ history'.last.ret = "Ok"]_vars

C39_Witness ==
    /\ history.config.enabled
    /\ history.config.max_entries = 2
    /\ history.pure
    /\ history.adds = 3
    /\ Len(history.all) = 6
    /\ Len(history.entries) = 2
    /\ history.entries[1].n = 5
    /\ history.entries[2].n = 6

\* the entries of s whose id is id
WithId(s, id) == {i \in 1..Len(s) : s[i].id = id}

\* C40: the ids of the entries are unique; delete_entry(id) of a present id
\* removes exactly that one entry, returns true unless the save failed, and
\* keeps every other entry in place; delete_entry of an absent id returns
\* false and changes nothing.
C40_DeleteRemovesExactlyOne ==
    /\ [](\A i, j \in 1..Len(history.entries) :
              history.entries[i].id = history.entries[j].id => i = j)
    /\ [][(history.config.enabled /\ history'.last.op = "delete"
              /\ history'.deletes = history.deletes + 1) =>
            IF WithId(history.entries, history'.last.id) # {}
            THEN /\ history'.last.ret \in {"true", "Err"}
                 /\ Len(history'.entries) = Len(history.entries) - 1
                 /\ history'.entries =
                        SelectSeq(history.entries, LAMBDA e : e.id # history'.last.id)
            ELSE /\ history'.last.ret = "false"
                 /\ history'.entries = history.entries]_vars

====
